---- MODULE Spec2Model ----
(***************************************************************************)
(* son_sim: a coordinator ("handler", src/handler.py) that tracks a fleet  *)
(* of nodes (src/node_base.py) over UDP, elects a master and relays        *)
(* commands.                                                               *)
(*                                                                         *)
(* The coordinator runs two threads over one shared NetworkHandler object: *)
(*   - the receive thread   (NetworkHandler.run)                           *)
(*   - the monitor thread   (NetworkHandler._monitor_network)              *)
(* A step of the model is the code a thread runs between two blocking      *)
(* calls (recvfrom, time.sleep) or, in the sweep's removal loop, one       *)
(* iteration of the loop.  assign_new_master() is called inline by both    *)
(* threads and sleeps one second in the middle, so it is split at the      *)
(* sleep.                                                                  *)
(*                                                                         *)
(* Time is an integer number of seconds, sampled every TickStep seconds:   *)
(* every time.time() read within a step returns the clock value `now`.     *)
(* A time.sleep(1) is shorter than one sampling period, so a sleeping      *)
(* thread may resume before or after the clock's next tick.                *)
(*                                                                         *)
(* `emitted` holds what the last step sent, in order: the membership,      *)
(* election and log events to the GUI (send_to_gui) and NEW_MASTER         *)
(* broadcasts to the nodes.  The GUI forwards of heartbeats and drone      *)
(* status (MASTER_HEARTBEAT, *_DRONE_STATUS, MASTER_HEALTH, DRONE_ERROR)   *)
(* change no state and are not recorded.                                   *)
(*                                                                         *)
(* join_timestamps and heartbeat_consistency are read by                   *)
(* select_initial_master only, which check_initialization_complete calls   *)
(* only while initialization_phase holds (handler.py:272); nothing sets    *)
(* initialization_phase again.  Once it is cleared the two dicts are dead: *)
(* the model records them up to the cold-start election and holds them     *)
(* empty afterwards.                                                       *)
(***************************************************************************)
EXTENDS Integers, Sequences, FiniteSets, TLC

(* ------------------------------ bounds -------------------------------- *)
\* the clock advances TickStep seconds at a time, MaxTicks times at most
TickStep == 3
MaxTicks == 3
\* NetworkHandler.heartbeat_window_size (10 in the source), scaled
heartbeat_window_size == 2
\* scores are kept as integers: a standard deviation is rounded down to 1/ScoreUnit
ScoreUnit == 100

(* ------------------------- program constants -------------------------- *)
heartbeat_timeout == 6
\* calculate_node_score: join times are normalised to a 30 second window
JoinWindow == 30
\* Python's None for master_id; node ids are positive
None == 0

\* the fleet: node ids are the last byte of the node's IP address
Nodes == {1, 2, 3}
\* NetworkHandler.expected_nodes: 9 in the source, where node ids range over
\* 1..10 (node.py:40); here one less than the fleet as well
expected_nodes == Cardinality(Nodes) - 1
MaxTime == TickStep * MaxTicks

\* the message types a node sends unasked (node_base.py:36, 191, 214)
MsgTypes == {"NODE_ADDED", "NODE_HEARTBEAT", "MASTER_HEARTBEAT", "NODE_SHUTDOWN"}
\* process_node_message: the types processed during initialization
InitTypes == {"NODE_HEARTBEAT", "NODE_ADDED", "COMMAND_ACK"}

VARIABLES
    known_nodes,            \* NetworkHandler.known_nodes : set of node ids
    master_id,              \* NetworkHandler.master_id   : None or a node id
    initialization_phase,   \* NetworkHandler.initialization_phase
    last_heartbeat,         \* dict node id -> time of the last processed message
    join_timestamps,        \* dict node id -> time of registration
    heartbeat_consistency,  \* dict node id -> list of intervals
    command_responses,      \* dict command -> result
    now,                    \* the clock, seconds
    rx_pc,                  \* receive thread: "recv", "settle" (in assign_new_master's sleep)
    rx_new_master,          \* assign_new_master's local new_master_id (receive thread)
    rx_iter,                \* send_network_state's iterator over known_nodes
    mon_pc,                 \* monitor thread: "sweep", "remove", "settle", "dead"
    mon_nodes_to_remove,    \* check_node_status's local nodes_to_remove
    mon_new_master,         \* assign_new_master's local new_master_id (monitor thread)
    emitted,                \* what the last step sent: GUI events and NEW_MASTER broadcasts, in order
    node_state,             \* per node: "init" (not started), "running", "stopped"
    node_master_id,         \* per node: Node.master_id
    node_is_master,         \* per node: Node.is_master
    node_drone_connected,   \* per node: Node.drone_connected
    net,                    \* per node: the NEW_MASTER datagrams in flight to it (their master_id)
    sc_in,                  \* cold-start scoring on its own: the coordinator's tables at the selection
    sc_out,                 \* and what select_initial_master computed from them
    sh_pc,                  \* operator shell: "idle", "send" (target chosen), "wait" (in _wait_for_command_response)
    sh_node,                \* the target node of the command the shell is executing
    sh_result,              \* _wait_for_command_response's local result: <<>> or <<result>>
    sh_command,             \* the name of the command the shell is executing
    last_command_node,      \* HandlerShell.last_command_node: None or the node selected
    cmd_net,                \* DRONE_COMMAND datagrams in flight to the nodes: <<node, command>>
    ack_net                 \* COMMAND_ACK datagrams in flight to the coordinator: <<node, data>>

vars == <<known_nodes, master_id, initialization_phase, last_heartbeat,
          join_timestamps, heartbeat_consistency, command_responses, now,
          rx_pc, rx_new_master, rx_iter, mon_pc, mon_nodes_to_remove, mon_new_master,
          emitted, node_state, node_master_id, node_is_master, node_drone_connected,
          net, sc_in, sc_out,
          sh_pc, sh_node, sh_result, sh_command, last_command_node, cmd_net, ack_net>>

coordVars == <<known_nodes, master_id, initialization_phase, last_heartbeat,
               join_timestamps, heartbeat_consistency, command_responses>>
rxVars == <<rx_pc, rx_new_master, rx_iter>>
monVars == <<mon_pc, mon_nodes_to_remove, mon_new_master>>
nodeVars == <<node_state, node_master_id, node_is_master, node_drone_connected>>
scoreVars == <<sc_in, sc_out>>
shellVars == <<sh_pc, sh_node, sh_result, sh_command, last_command_node>>
cmdVars == <<cmd_net, ack_net>>

(* ------------------------------ helpers ------------------------------- *)
\* no iteration over known_nodes is going on
NoIter == [left |-> {}, len |-> 0]

\* d[k] = v on a Python dict
DictPut(d, k, v) == [x \in DOMAIN d \cup {k} |-> IF x = k THEN v ELSE d[x]]
\* del d[k]
DictDel(d, k) == [x \in DOMAIN d \ {k} |-> d[x]]
EmptyDict == [x \in {} |-> 0]

SetMin(S) == CHOOSE x \in S : \A y \in S : x <= y
SetMax(S) == CHOOSE x \in S : \A y \in S : x >= y

\* an event sent to the GUI (send_to_gui) or a datagram broadcast to the nodes
Ev(type, arg) == <<type, arg>>

(* --------------------------- cold-start scoring ----------------------- *)
\* Scores are rationals with denominator ScoreDen(expected); the operators
\* below return the numerator.  0.4 = 60/150, 0.2 = 30/150.
ScoreDen(expected) == 150 * expected * ScoreUnit

RECURSIVE SeqSum(_)
SeqSum(s) == IF s = <<>> THEN 0 ELSE Head(s) + SeqSum(Tail(s))
RECURSIVE SeqSumSq(_)
SeqSumSq(s) == IF s = <<>> THEN 0 ELSE Head(s) * Head(s) + SeqSumSq(Tail(s))

\* floor(sqrt(v)) for 0 <= v < ScoreUnit^2
ISqrt(v) == CHOOSE r \in 0..ScoreUnit : r * r <= v /\ (r + 1) * (r + 1) > v

\* min(statistics.stdev(intervals), 1.0) in units of 1/ScoreUnit, for
\* len(intervals) > 1: the sample variance is
\* (n*sum(x^2) - sum(x)^2) / (n*(n-1))
StdevCapped(intervals) ==
    LET n == Len(intervals)
        num == n * SeqSumSq(intervals) - SeqSum(intervals) * SeqSum(intervals)
        den == n * (n - 1)
    IN  IF num >= den THEN ScoreUnit
        ELSE ISqrt((num * ScoreUnit * ScoreUnit) \div den)

\* Factor 1: 0.4 * clamp(1 - (join_time - min(join_timestamps)) / 30)
TimeTerm(node_id, jt, expected) ==
    IF node_id \in DOMAIN jt
    THEN LET minJoin == SetMin({jt[k] : k \in DOMAIN jt})
             d == jt[node_id] - minJoin
             left == IF d >= JoinWindow THEN 0
                     ELSE IF d <= 0 THEN JoinWindow ELSE JoinWindow - d
         IN  2 * expected * ScoreUnit * left
    ELSE 0

\* C8 mutant: a single interval earns nothing for consistency
ConsistencyTerm_NothingBelowTwo(node_id, hc, expected) ==
    IF node_id \in DOMAIN hc /\ Len(hc[node_id]) > 1
    THEN 60 * expected * (ScoreUnit - StdevCapped(hc[node_id]))
    ELSE 0

\* Factor 2: 0.4 * (1 - min(std_dev, 1)), std_dev = 0 for a single interval,
\* nothing when the list is missing or empty
ConsistencyTerm(node_id, hc, expected) ==
    IF node_id \in DOMAIN hc /\ hc[node_id] # <<>>
    THEN LET sd == IF Len(hc[node_id]) > 1 THEN StdevCapped(hc[node_id]) ELSE 0
         IN  60 * expected * (ScoreUnit - sd)
    ELSE 0

\* Factor 3: 0.2 * (1 - node_id / expected_nodes)
IdTerm(node_id, expected) == 30 * ScoreUnit * (expected - node_id)

calculate_node_score(node_id, jt, hc, expected) ==
    TimeTerm(node_id, jt, expected) + ConsistencyTerm(node_id, hc, expected)
        + IdTerm(node_id, expected)

\* C7 mutant: min() for max(), the node of the lowest score is selected
select_initial_master_Min(kn, jt, hc, expected) ==
    {n \in kn : \A m \in kn :
        calculate_node_score(n, jt, hc, expected) <= calculate_node_score(m, jt, hc, expected)}

\* select_initial_master: max() returns the first maximal entry in the
\* iteration order of the set known_nodes, which Python leaves unspecified:
\* the result is any node of maximal score
select_initial_master(kn, jt, hc, expected) ==
    {n \in kn : \A m \in kn :
        calculate_node_score(n, jt, hc, expected) >= calculate_node_score(m, jt, hc, expected)}

\* C9 mutant: a node's first message only creates its list, no interval is
\* recorded until the second
update_heartbeat_consistency_FromSecond(hc, lh, node_id, timestamp) ==
    IF node_id \notin DOMAIN hc THEN DictPut(hc, node_id, <<>>)
    ELSE LET old == hc[node_id]
             kept == IF Len(old) >= heartbeat_window_size THEN Tail(old) ELSE old
         IN  DictPut(hc, node_id, Append(kept, timestamp - lh[node_id]))

\* update_heartbeat_consistency(node_id, timestamp), called after
\* last_heartbeat[node_id] has been set (lh is the updated dict).
\* last_heartbeat.get(node_id) is truthy for every stored time: time.time()
\* is never 0.0 (the model's clock counts from the coordinator's start)
update_heartbeat_consistency(hc, lh, node_id, timestamp) ==
    LET hc0 == IF node_id \in DOMAIN hc THEN hc ELSE DictPut(hc, node_id, <<>>)
    IN  IF node_id \in DOMAIN lh
        THEN LET interval == timestamp - lh[node_id]
                 old == hc0[node_id]
                 kept == IF Len(old) >= heartbeat_window_size THEN Tail(old) ELSE old
             IN  DictPut(hc0, node_id, Append(kept, interval))
        ELSE hc0

(* ----------------------------- election ------------------------------- *)
\* C37 mutant: the smallest known id, whatever the failed master's id was
NextMaster_Smallest(kn, m) == SetMin(kn)

\* C2 mutant: the last node of the sorted list that is greater, not the first
NextMaster_Last(kn, m) ==
    IF m = None THEN SetMin(kn)
    ELSE IF \E n \in kn : n > m THEN SetMax({n \in kn : n > m})
    ELSE None

\* assign_new_master, lines 94-107: the successor of the failed master m
\* among the sorted known nodes kn (kn non-empty); None when there is none
NextMaster(kn, m) ==
    IF m = None THEN SetMin(kn)
    ELSE IF \E n \in kn : n > m THEN SetMin({n \in kn : n > m})
    ELSE None

\* C4 mutant: with no node left the election returns without clearing master_id
assign_new_master_KeepsMaster(kn, m) ==
    IF kn = {} \/ NextMaster(kn, m) = None
    THEN [master |-> m, out |-> <<Ev(IF kn = {} THEN "LOG_NO_NODES" ELSE "LOG_NO_ELIGIBLE", 0)>>,
          sleep |-> FALSE, new_master_id |-> None]
    ELSE [master |-> NextMaster(kn, m), out |-> <<Ev("MASTER_TRANSITION_START", 0)>>,
          sleep |-> TRUE, new_master_id |-> NextMaster(kn, m)]

\* assign_new_master up to time.sleep(1): the new master_id, what is sent to
\* the GUI, and whether the caller goes on to the settle delay
assign_new_master(kn, m) ==
    IF kn = {}
    THEN [master |-> None, out |-> <<Ev("LOG_NO_NODES", 0)>>,
          sleep |-> FALSE, new_master_id |-> None]
    ELSE IF NextMaster(kn, m) = None
    THEN [master |-> m, out |-> <<Ev("LOG_NO_ELIGIBLE", 0)>>,
          sleep |-> FALSE, new_master_id |-> None]
    ELSE [master |-> NextMaster(kn, m), out |-> <<Ev("MASTER_TRANSITION_START", 0)>>,
          sleep |-> TRUE, new_master_id |-> NextMaster(kn, m)]

\* the datagrams a broadcast of NEW_MASTER{m} to the nodes kn puts in flight:
\* a node that is not running has no socket and the datagram is gone
Broadcast(netv, kn, m) ==
    [n \in Nodes |-> IF n \in kn /\ node_state[n] = "running"
                     THEN netv[n] \cup {m} ELSE netv[n]]

\* assign_new_master after the sleep: NEW_MASTER to the nodes known now, then
\* MASTER_TRANSITION_END, MASTER_CHANGED and a LOG to the GUI
AfterSettleOut(kn, new_master_id) ==
    (IF kn = {} THEN <<>> ELSE <<Ev("NEW_MASTER", new_master_id)>>)
        \o <<Ev("MASTER_TRANSITION_END", 0), Ev("MASTER_CHANGED", new_master_id),
             Ev("LOG_ASSIGNED", new_master_id)>>

(* ------------------------------- Init --------------------------------- *)
\* NetworkHandler.__init__ and start(); no node process has been started
Init ==
    /\ known_nodes = {}
    /\ master_id = None
    /\ initialization_phase = TRUE
    /\ last_heartbeat = EmptyDict
    /\ join_timestamps = EmptyDict
    /\ heartbeat_consistency = EmptyDict
    /\ command_responses = EmptyDict
    /\ now = 0
    /\ rx_pc = "recv"
    /\ rx_new_master = None
    /\ mon_pc = "sweep"
    /\ mon_nodes_to_remove = {}
    /\ mon_new_master = None
    /\ emitted = <<>>
    /\ node_state = [n \in Nodes |-> "init"]
    /\ node_master_id = [n \in Nodes |-> None]
    /\ node_is_master = [n \in Nodes |-> FALSE]
    /\ net = [n \in Nodes |-> {}]
    /\ sc_in = <<>>
    /\ sc_out = <<>>
    /\ sh_pc = "idle"
    /\ sh_node = None
    /\ sh_command = "none"
    /\ cmd_net = {}
    /\ ack_net = {}
    /\ sh_result = <<>>
    /\ rx_iter = NoIter
    /\ node_drone_connected = [n \in Nodes |-> FALSE]
    /\ last_command_node = None

(* ------------------------ the receive thread -------------------------- *)
\* A datagram of type msg_type from node from_node can arrive: the node has
\* sent one.  Datagrams may be delayed, so a heartbeat or an ack of a node
\* that has stopped since can still arrive.
CanArrive(from_node, msg_type) ==
    /\ node_state[from_node] # "init"
    /\ msg_type = "NODE_SHUTDOWN" => node_state[from_node] = "stopped"

\* C6 mutant: the cold start fires one node early
InitializationComplete_OneShort(kn, expected) == Cardinality(kn) >= expected - 1

\* check_initialization_complete, line 272: all expected nodes have joined
InitializationComplete(kn, expected) == Cardinality(kn) >= expected

\* C38 mutant: the cold start elects and announces its master but leaves the
\* phase flag set
InitJoin_KeepsPhase(from_node, lh, hc, new_master, post) ==
    LET kn == known_nodes \cup {from_node}
        jt == DictPut(join_timestamps, from_node, now)
        joined == <<Ev("NODE_ADDED", from_node), Ev("LOG_INIT_JOIN", from_node)>>
    IN  /\ known_nodes' = kn
        /\ IF InitializationComplete(kn, expected_nodes)
           THEN /\ new_master \in select_initial_master(kn, jt, hc, expected_nodes)
                /\ join_timestamps' = EmptyDict
                /\ heartbeat_consistency' = EmptyDict
                /\ master_id' = new_master
                /\ net' = Broadcast(net, kn, new_master)
                /\ initialization_phase' = TRUE
                /\ emitted' = joined \o <<Ev("NEW_MASTER", new_master),
                                          Ev("INITIALIZATION_COMPLETE", new_master),
                                          Ev("MASTER_CHANGED", new_master)>> \o post
           ELSE /\ new_master = None
                /\ join_timestamps' = jt
                /\ heartbeat_consistency' = hc
                /\ emitted' = joined \o post
                /\ UNCHANGED <<master_id, net, initialization_phase>>

\* process_node_message, lines 355-374: a new node joins during
\* initialization; check_initialization_complete elects new_master when the
\* expected number of nodes is reached.  post is what the rest of
\* process_node_message sends after it.
InitJoin(from_node, lh, hc, new_master, post) ==
    LET kn == known_nodes \cup {from_node}
        jt == DictPut(join_timestamps, from_node, now)
        joined == <<Ev("NODE_ADDED", from_node), Ev("LOG_INIT_JOIN", from_node)>>
    IN  /\ known_nodes' = kn
        /\ IF InitializationComplete(kn, expected_nodes)
           THEN /\ new_master \in select_initial_master(kn, jt, hc, expected_nodes)
                /\ join_timestamps' = EmptyDict
                /\ heartbeat_consistency' = EmptyDict
                /\ master_id' = new_master
                /\ net' = Broadcast(net, kn, new_master)
                /\ initialization_phase' = FALSE
                /\ emitted' = joined \o <<Ev("NEW_MASTER", new_master),
                                          Ev("INITIALIZATION_COMPLETE", new_master),
                                          Ev("MASTER_CHANGED", new_master)>> \o post
           ELSE /\ new_master = None
                /\ join_timestamps' = jt
                /\ heartbeat_consistency' = hc
                /\ emitted' = joined \o post
                /\ UNCHANGED <<master_id, net, initialization_phase>>

\* C18 mutant: an unconsumed result is not overwritten
CommandAck_KeepsOlder(command, result) ==
    /\ command_responses' = IF command \in DOMAIN command_responses
                               THEN command_responses
                               ELSE DictPut(command_responses, command, result)

\* process_node_message, lines 383-411: a command acknowledgment
CommandAck(command, result) ==
    /\ command_responses' = DictPut(command_responses, command, result)

\* process_node_message, lines 435-454: NODE_SHUTDOWN of a known node
NodeShutdown(from_node, kn, pre) ==
    LET kn1 == kn \ {from_node}
        removed == pre \o <<Ev("NODE_REMOVED", from_node), Ev("LOG_LEFT", from_node)>>
        a == assign_new_master(kn1, master_id)
    IN  /\ known_nodes' = kn1
        /\ IF from_node = master_id
           THEN /\ master_id' = a.master
                /\ emitted' = removed \o a.out
                /\ rx_pc' = IF a.sleep THEN "settle" ELSE "recv"
                /\ rx_new_master' = a.new_master_id
           ELSE /\ emitted' = removed
                /\ UNCHANGED <<master_id, rx_pc, rx_new_master>>

\* C12 mutant: the time since the sender's previous message is stored, not
\* the time of this one
RecordHeartbeat_Interval(lh, from_node, current_time) ==
    DictPut(lh, from_node,
            IF from_node \in DOMAIN lh THEN current_time - lh[from_node] ELSE current_time)

\* process_node_message, line 351: the time the message is processed, on the
\* coordinator's clock, becomes the sender's last_heartbeat
RecordHeartbeat(lh, from_node, current_time) == DictPut(lh, from_node, current_time)

\* the data of a message that is no command acknowledgment (not looked at)
NoData == FALSE

\* process_node_message, lines 391-409: what a COMMAND_ACK sends to the GUI
AckOut(from_node) == <<Ev("DRONE_COMMAND_RESULT", from_node), Ev("LOG_ACK", from_node)>>

\* run() receives one datagram and process_node_message handles it; data is
\* the message's data, [command, result] for a COMMAND_ACK
ProcessNodeMessage(from_node, msg_type, data, new_master) ==
    /\ rx_pc = "recv"
    /\ ack_net' = IF msg_type = "COMMAND_ACK" THEN ack_net \ {<<from_node, data>>} ELSE ack_net
    /\ LET lh == RecordHeartbeat(last_heartbeat, from_node, now)
           hc == update_heartbeat_consistency(heartbeat_consistency, lh, from_node, now)
       IN
       /\ last_heartbeat' = lh
       /\ IF initialization_phase
          THEN \* lines 355-378 and, for the types let through, 383-415
               /\ UNCHANGED <<rx_pc, rx_new_master>>
               /\ IF from_node \notin known_nodes
                  THEN InitJoin(from_node, lh, hc, new_master,
                                IF msg_type = "COMMAND_ACK" THEN AckOut(from_node) ELSE <<>>)
                  ELSE /\ new_master = None
                       /\ heartbeat_consistency' = hc
                       /\ emitted' = IF msg_type = "COMMAND_ACK" THEN AckOut(from_node) ELSE <<>>
                       /\ UNCHANGED <<known_nodes, join_timestamps, master_id, net,
                                      initialization_phase>>
               /\ IF msg_type = "COMMAND_ACK"
                  THEN CommandAck(data.command, data.result)
                  ELSE /\ data = NoData
                       /\ UNCHANGED command_responses
          ELSE IF msg_type = "COMMAND_ACK"
          THEN \* lines 383-411
               /\ new_master = None
               /\ CommandAck(data.command, data.result)
               /\ emitted' = AckOut(from_node)
               /\ UNCHANGED <<known_nodes, join_timestamps, heartbeat_consistency,
                              master_id, net, initialization_phase, rx_pc, rx_new_master>>
          ELSE \* lines 417-518
               LET isNew == from_node \notin known_nodes
                   kn == known_nodes \cup {from_node}
                   pre == IF isNew
                          THEN <<Ev("NODE_ADDED", from_node), Ev("LOG_JOINED", from_node)>>
                          ELSE <<>>
               IN  /\ new_master = None
                   /\ data = NoData
                   /\ UNCHANGED <<command_responses, initialization_phase, net,
                                  join_timestamps, heartbeat_consistency>>
                   /\ IF msg_type = "NODE_SHUTDOWN"
                      THEN NodeShutdown(from_node, kn, pre)
                      ELSE /\ known_nodes' = kn
                           /\ emitted' = pre
                           /\ UNCHANGED <<master_id, rx_pc, rx_new_master>>
    /\ UNCHANGED <<now, rx_iter, monVars, nodeVars, scoreVars, shellVars, cmd_net>>

\* assign_new_master (called by the receive thread) after time.sleep(1)
RxAfterSettle ==
    /\ rx_pc = "settle"
    /\ net' = Broadcast(net, known_nodes, rx_new_master)
    /\ emitted' = AfterSettleOut(known_nodes, rx_new_master)
    /\ rx_pc' = "recv"
    /\ rx_new_master' = None
    /\ UNCHANGED <<coordVars, now, rx_iter, monVars, nodeVars, scoreVars, shellVars, cmdVars>>

\* run, lines 529-531, and send_network_state, line 199: a GUI_CONNECTED
\* datagram is received; the receive thread sleeps before it replays
RxGuiConnected ==
    /\ rx_pc = "recv"
    /\ rx_pc' = "gui_sleep"
    /\ emitted' = <<>>
    /\ UNCHANGED <<coordVars, now, rx_new_master, rx_iter, monVars, nodeVars, net,
                   scoreVars, shellVars, cmdVars>>

\* send_network_state, line 202: the for loop creates its iterator over
\* known_nodes, which remembers the size of the set
ReplayStart ==
    /\ rx_pc = "gui_sleep"
    /\ rx_pc' = "replay"
    /\ rx_iter' = [left |-> known_nodes, len |-> Cardinality(known_nodes)]
    /\ emitted' = <<>>
    /\ UNCHANGED <<coordVars, now, rx_new_master, monVars, nodeVars, net,
                   scoreVars, shellVars, cmdVars>>

\* send_network_state, lines 202-212: one turn of the loop.  The iterator
\* raises RuntimeError when the monitor thread has changed the size of
\* known_nodes since the loop began (run catches and logs it, lines
\* 538-539); a node the set still holds is replayed as NODE_ADDED, in an
\* order Python leaves unspecified; after the last node the master is
\* replayed.
ReplayTurn ==
    /\ rx_pc = "replay"
    /\ IF Cardinality(known_nodes) # rx_iter.len
       THEN /\ emitted' = <<Ev("LOG_ERROR", 0)>>
            /\ rx_pc' = "recv"
            /\ rx_iter' = NoIter
       ELSE IF rx_iter.left \cap known_nodes # {}
       THEN \E node_id \in rx_iter.left \cap known_nodes :
               /\ emitted' = <<Ev("NODE_ADDED", node_id)>>
               /\ rx_iter' = [rx_iter EXCEPT !.left = @ \ {node_id}]
               /\ UNCHANGED rx_pc
       ELSE /\ emitted' = IF master_id # None
                          THEN <<Ev("MASTER_CHANGED", master_id)>>
                          ELSE <<>>
            /\ rx_pc' = "recv"
            /\ rx_iter' = NoIter
    /\ UNCHANGED <<coordVars, now, rx_new_master, monVars, nodeVars, net,
                   scoreVars, shellVars, cmdVars>>

(* ------------------------ the monitor thread -------------------------- *)
\* check_node_status, lines 156-169: the nodes whose heartbeat timed out
StaleNodes ==
    {n \in known_nodes :
        n \notin DOMAIN last_heartbeat \/ now - last_heartbeat[n] > heartbeat_timeout}

\* check_node_status up to its removal loop; with nothing to remove the
\* thread goes to time.sleep(1) in _monitor_network and sweeps again
MonitorScan ==
    /\ mon_pc = "sweep"
    /\ mon_nodes_to_remove' = StaleNodes
    /\ mon_pc' = IF StaleNodes = {} THEN "sweep" ELSE "remove"
    /\ emitted' = IF StaleNodes = {} THEN <<>> ELSE <<Ev("LOG_LOST", SetMin(StaleNodes))>>
    /\ UNCHANGED <<coordVars, now, rxVars, mon_new_master, nodeVars, net, scoreVars, shellVars, cmdVars>>

\* one iteration of the removal loop, lines 172-181, for node_id; the set
\* nodes_to_remove is iterated in an order Python leaves unspecified.
\* known_nodes.remove raises KeyError when the receive thread has removed
\* the node since the scan: nothing catches it and the thread ends.
MonitorRemove(node_id) ==
    /\ mon_pc = "remove"
    /\ node_id \in mon_nodes_to_remove
    /\ IF node_id \notin known_nodes
       THEN /\ mon_pc' = "dead"
            /\ mon_nodes_to_remove' = {}
            /\ emitted' = <<>>
            /\ UNCHANGED <<coordVars, mon_new_master>>
       ELSE LET kn == known_nodes \ {node_id}
                rest == mon_nodes_to_remove \ {node_id}
                a == assign_new_master(kn, master_id)
                done == IF rest = {} THEN "sweep" ELSE "remove"
            IN  /\ known_nodes' = kn
                /\ mon_nodes_to_remove' = rest
                /\ IF node_id = master_id
                   THEN /\ master_id' = a.master
                        /\ emitted' = <<Ev("NODE_REMOVED", node_id)>> \o a.out
                        /\ mon_pc' = IF a.sleep THEN "settle" ELSE done
                        /\ mon_new_master' = a.new_master_id
                   ELSE /\ emitted' = <<Ev("NODE_REMOVED", node_id)>>
                        /\ mon_pc' = done
                        /\ UNCHANGED <<master_id, mon_new_master>>
                /\ UNCHANGED <<initialization_phase, last_heartbeat, join_timestamps,
                               heartbeat_consistency, command_responses>>
    /\ UNCHANGED <<now, rxVars, nodeVars, net, scoreVars, shellVars, cmdVars>>

\* assign_new_master (called by the monitor thread) after time.sleep(1); the
\* removal loop then goes on
MonitorAfterSettle ==
    /\ mon_pc = "settle"
    /\ net' = Broadcast(net, known_nodes, mon_new_master)
    /\ emitted' = AfterSettleOut(known_nodes, mon_new_master)
    /\ mon_pc' = IF mon_nodes_to_remove = {} THEN "sweep" ELSE "remove"
    /\ mon_new_master' = None
    /\ UNCHANGED <<coordVars, now, rxVars, mon_nodes_to_remove, nodeVars, scoreVars, shellVars, cmdVars>>

(* ------------------------------ the clock ----------------------------- *)
\* TickStep seconds pass
Tick ==
    /\ now + TickStep <= MaxTime
    /\ now' = now + TickStep
    /\ emitted' = <<>>
    /\ UNCHANGED <<coordVars, rxVars, monVars, nodeVars, net, scoreVars, shellVars, cmdVars>>

(* ------------------------------ the nodes ----------------------------- *)
\* Node.start(): the node binds its socket and announces itself
NodeStart(n) ==
    /\ node_state[n] = "init"
    /\ node_state' = [node_state EXCEPT ![n] = "running"]
    /\ emitted' = <<>>
    /\ UNCHANGED <<coordVars, now, rxVars, monVars, node_master_id, node_is_master,
                   node_drone_connected, net, scoreVars, shellVars, cmdVars>>

\* Node.stop() of a running node, lines 210-216: the drone controller of a
\* connected drone is cleaned up, NODE_SHUTDOWN is sent and the socket
\* closed; the datagrams still in flight to the node are gone.  When
\* cleanup raises, stop ends there.
NodeStop(n) ==
    /\ node_state[n] = "running"
    /\ \E cleanup_ok \in BOOLEAN :
         IF node_drone_connected[n] /\ ~cleanup_ok
         THEN /\ emitted' = <<Ev("CALL", "cleanup")>>
              /\ UNCHANGED <<node_state, net>>
         ELSE /\ node_state' = [node_state EXCEPT ![n] = "stopped"]
              /\ net' = [net EXCEPT ![n] = {}]
              /\ emitted' = (IF node_drone_connected[n]
                             THEN <<Ev("CALL", "cleanup")>> ELSE <<>>)
                            \o <<Ev("SEND_NODE_SHUTDOWN", n), Ev("SOCKET_CLOSE", n)>>
    /\ UNCHANGED <<coordVars, now, rxVars, monVars, node_master_id, node_is_master,
                   node_drone_connected, scoreVars, shellVars, cmdVars>>

\* Node.stop() of a node that has stopped: is_running is false, nothing is
\* sent; the socket is closed again
NodeStopAgain(n) ==
    /\ node_state[n] = "stopped"
    /\ emitted' = <<Ev("SOCKET_CLOSE", n)>>
    /\ UNCHANGED <<coordVars, now, rxVars, monVars, nodeVars, net, scoreVars,
                   shellVars, cmdVars>>

\* C23 mutant: a node that was told it is the master stays one
NodeNewMaster_StickyLeader(n, m) ==
    /\ node_state[n] = "running"
    /\ m \in net[n]
    /\ net' = [net EXCEPT ![n] = @ \ {m}]
    /\ node_master_id' = [node_master_id EXCEPT ![n] = m]
    /\ node_is_master' = [node_is_master EXCEPT ![n] = (@ \/ n = m)]
    /\ emitted' = <<>>
    /\ UNCHANGED <<coordVars, now, rxVars, monVars, node_state, node_drone_connected,
                   scoreVars, shellVars, cmdVars>>

\* Node._process_message, lines 164-171: NEW_MASTER{master_id = m} arrives
NodeNewMaster(n, m) ==
    /\ node_state[n] = "running"
    /\ m \in net[n]
    /\ net' = [net EXCEPT ![n] = @ \ {m}]
    /\ node_master_id' = [node_master_id EXCEPT ![n] = m]
    /\ node_is_master' = [node_is_master EXCEPT ![n] = (n = m)]
    /\ emitted' = <<>>
    /\ UNCHANGED <<coordVars, now, rxVars, monVars, node_state, node_drone_connected,
                   scoreVars, shellVars, cmdVars>>

(* ------------------------------- Spec --------------------------------- *)
\* The coordinator against an arbitrary network: any datagram can arrive at
\* any time.  The node processes are left out (they stay "init").
Next ==
    \/ \E n \in Nodes, t \in MsgTypes, m \in Nodes \cup {None} :
            ProcessNodeMessage(n, t, NoData, m)
    \/ RxAfterSettle
    \/ MonitorScan
    \/ \E n \in Nodes : MonitorRemove(n)
    \/ MonitorAfterSettle
    \/ Tick

Spec == Init /\ [][Next]_vars

\* The same, with a GUI that can announce itself at any time
GuiNext == Next \/ RxGuiConnected \/ ReplayStart \/ ReplayTurn

SpecGui == Init /\ [][GuiNext]_vars

\* The coordinator's receive thread and the node processes, with every
\* heartbeat in time (the clock stands still, so no sweep finds a stale
\* node): only what a node has sent arrives, and NEW_MASTER datagrams reach
\* the nodes in any order.
FleetNext ==
    \/ \E n \in Nodes, t \in MsgTypes, m \in Nodes \cup {None} :
            CanArrive(n, t) /\ ProcessNodeMessage(n, t, NoData, m)
    \/ RxAfterSettle
    \/ \E n \in Nodes : NodeStart(n)
    \/ \E n \in Nodes : NodeStop(n)
    \/ \E n \in Nodes, m \in Nodes : NodeNewMaster(n, m)

SpecFleet == Init /\ [][FleetNext]_vars

(* -------------------- the cold-start selection on its own ------------- *)
\* The fleets the selection is run on: the one of the source (ids 1..10,
\* nine expected) and a fleet of three
ScoreFleets == {[expected |-> 3, ids |-> 1..3], [expected |-> 9, ids |-> 1..10]}
\* how long after the first node a node joins, seconds
JoinOffsets == {0, 1, 5, 29, 30, 31}

\* the coordinator's tables before any message
NoTables ==
    [known_nodes |-> {}, last_heartbeat |-> EmptyDict,
     join_timestamps |-> EmptyDict, heartbeat_consistency |-> EmptyDict]

\* process_node_message, lines 351-352 and 355-359, for the messages of
\* node_id processed at the given times during initialization
RECURSIVE Heard(_, _, _)
Heard(tables, node_id, times) ==
    IF times = <<>> THEN tables
    ELSE LET t == Head(times)
             lh == DictPut(tables.last_heartbeat, node_id, t)
             hc == update_heartbeat_consistency(tables.heartbeat_consistency, lh, node_id, t)
             jt == IF node_id \in tables.known_nodes THEN tables.join_timestamps
                   ELSE DictPut(tables.join_timestamps, node_id, t)
         IN  Heard([known_nodes |-> tables.known_nodes \cup {node_id},
                    last_heartbeat |-> lh, join_timestamps |-> jt,
                    heartbeat_consistency |-> hc], node_id, Tail(times))

\* the tables after the messages of every node of ids, schedule[n] being the
\* times at which the messages of n are processed
RECURSIVE HeardAll(_, _, _)
HeardAll(tables, schedule, ids) ==
    IF ids = {} THEN tables
    ELSE LET n == SetMin(ids)
         IN  HeardAll(Heard(tables, n, schedule[n]), schedule, ids \ {n})

\* count messages of a node that joins at time joined, one a second, none
\* later than the selection at time last
MessageTimes(joined, count, last) ==
    [i \in 1..count |-> IF joined + i - 1 > last THEN last ELSE joined + i - 1]

\* The tables at the cold-start selection of the nine-node fleet: all of
\* 1..10 but one have joined, node late as the ninth, d seconds after the
\* others, with its first message; the others have sent count messages
NineNodeTables ==
    {HeardAll(NoTables,
              [n \in 1..10 |-> IF n = late THEN <<d>> ELSE MessageTimes(0, count, d)],
              (1..10) \ {absent}) :
        absent \in 1..10, late \in 1..10, d \in JoinOffsets, count \in 1..heartbeat_window_size}

\* The tables at the cold-start selection of the three-node fleet: the nodes
\* join at t, t + 1 and t + 5 in the order perm, the last one with its first
\* message, the others with count messages
ThreeNodeTables ==
    {HeardAll(NoTables,
              [n \in 1..3 |-> IF n = perm[1] THEN MessageTimes(t, count, t + 5)
                              ELSE IF n = perm[2] THEN MessageTimes(t + 1, count, t + 5)
                              ELSE <<t + 5>>],
              1..3) :
        perm \in {p \in [1..3 -> 1..3] : {p[1], p[2], p[3]} = 1..3},
        t \in {1, 2}, count \in 1..heartbeat_window_size}

ScoreInputs ==
    {[expected |-> 9, tables |-> tb] :
        tb \in {x \in NineNodeTables : Cardinality(x.known_nodes) = 9}}
    \cup {[expected |-> 3, tables |-> tb] : tb \in ThreeNodeTables}

\* the coordinator is about to run check_initialization_complete
ScoreInit ==
    /\ Init!1 /\ Init!2 /\ Init!3 /\ Init!4 /\ Init!5 /\ Init!6 /\ Init!7
    /\ Init!8 /\ Init!9 /\ Init!10 /\ Init!11 /\ Init!12 /\ Init!13 /\ Init!14
    /\ Init!15 /\ Init!16 /\ Init!17 /\ Init!18
    /\ Init!21 /\ Init!22 /\ Init!23 /\ Init!24 /\ Init!25 /\ Init!26 /\ Init!27 /\ Init!28
    /\ Init!29
    /\ sc_in \in ScoreInputs
    /\ sc_out = <<>>

\* select_initial_master, lines 255-268: the scores dict, each node's
\* consistency contribution to its score, and the node max() returns
SelectInitialMaster ==
    /\ sc_out = <<>>
    /\ LET kn == sc_in.tables.known_nodes
           jt == sc_in.tables.join_timestamps
           hc == sc_in.tables.heartbeat_consistency
       IN  \E m \in select_initial_master(kn, jt, hc, sc_in.expected) :
               sc_out' = [scores |-> [n \in kn |->
                                calculate_node_score(n, jt, hc, sc_in.expected)],
                          consistency |-> [n \in kn |->
                                ConsistencyTerm(n, hc, sc_in.expected)],
                          master |-> m]
    /\ UNCHANGED <<coordVars, now, rxVars, monVars, emitted, nodeVars, net, sc_in,
                   shellVars, cmdVars>>

ScoreNext == SelectInitialMaster

SpecScore == ScoreInit /\ [][ScoreNext]_vars

(* --------------------------- operator commands ------------------------ *)
\* the command names the operator uses (two of the shell's do_* commands)
Commands == {"arm", "connect"}
\* at most this many command and acknowledgment datagrams are in flight
MaxInFlight == 1

\* C16 mutant: the datagram leaves before the target is checked
send_drone_command_SendsFirst(kn, node_id, command, sendto_ok) ==
    IF node_id \notin kn
    THEN [ret |-> FALSE, sent |-> {<<node_id, command>>},
          out |-> <<Ev("LOG_UNKNOWN_NODE", node_id)>>]
    ELSE IF sendto_ok
    THEN [ret |-> TRUE, sent |-> {<<node_id, command>>},
          out |-> <<Ev("LOG_SENT", node_id)>>]
    ELSE [ret |-> FALSE, sent |-> {}, out |-> <<Ev("LOG_SEND_ERROR", node_id)>>]

\* send_drone_command(node_id, command): the value returned, the
\* DRONE_COMMAND datagrams sent and the lines logged.  sendto_ok is FALSE
\* when socket.sendto raises (lines 338-340).
send_drone_command(kn, node_id, command, sendto_ok) ==
    IF node_id \notin kn
    THEN [ret |-> FALSE, sent |-> {}, out |-> <<Ev("LOG_UNKNOWN_NODE", node_id)>>]
    ELSE IF sendto_ok
    THEN [ret |-> TRUE, sent |-> {<<node_id, command>>},
          out |-> <<Ev("LOG_SENT", node_id)>>]
    ELSE [ret |-> FALSE, sent |-> {}, out |-> <<Ev("LOG_SEND_ERROR", node_id)>>]

\* room for the datagrams sent, within the bound
InFlightRoom(sent) == Cardinality(cmd_net \cup sent) + Cardinality(ack_net) <= MaxInFlight

\* do_arm / do_connect with a node id, up to _get_target_node: the target is
\* accepted when it is in known_nodes
ShellTarget(arg, command) ==
    /\ sh_pc = "idle"
    /\ IF arg \in known_nodes
       THEN /\ sh_pc' = "send"
            /\ sh_node' = arg
            /\ sh_command' = command
            /\ emitted' = <<>>
            /\ UNCHANGED <<sh_result, last_command_node>>
       ELSE /\ emitted' = <<Ev("PRINT_NOT_CONNECTED", arg)>>
            /\ UNCHANGED shellVars
    /\ UNCHANGED <<coordVars, now, rxVars, monVars, nodeVars, net, scoreVars, cmdVars>>

\* do_arm / do_connect after _get_target_node: send_drone_command, then,
\* when it returned True, _wait_for_command_response
ShellSend ==
    /\ sh_pc = "send"
    /\ \E sendto_ok \in BOOLEAN :
         LET r == send_drone_command(known_nodes, sh_node, sh_command, sendto_ok)
         IN  /\ InFlightRoom(r.sent)
             /\ cmd_net' = cmd_net \cup r.sent
             /\ emitted' = r.out \o <<Ev("RETURN", r.ret)>>
             /\ sh_pc' = IF r.ret THEN "wait" ELSE "idle"
             /\ sh_node' = None
             /\ sh_command' = IF r.ret THEN sh_command ELSE "none"
             /\ UNCHANGED <<sh_result, last_command_node>>
    /\ UNCHANGED <<coordVars, now, rxVars, monVars, nodeVars, net, scoreVars, ack_net>>

\* _broadcast_command: send_drone_command to every known node, no wait;
\* sendto raises for the nodes in failed
ShellBroadcast(command) ==
    /\ sh_pc = "idle"
    /\ known_nodes # {}
    /\ \E failed \in SUBSET known_nodes :
         LET sent == UNION {send_drone_command(known_nodes, n, command, n \notin failed).sent :
                               n \in known_nodes}
         IN  /\ InFlightRoom(sent)
             /\ cmd_net' = cmd_net \cup sent
             /\ emitted' = <<Ev("DRONE_COMMAND_ALL", Cardinality(sent))>>
    /\ UNCHANGED <<coordVars, now, rxVars, monVars, nodeVars, net, scoreVars, shellVars, ack_net>>

\* _wait_for_command_response, lines 889-890: the command is found in
\* command_responses and its result read
WaitRead ==
    /\ sh_pc = "wait"
    /\ sh_command \in DOMAIN command_responses
    /\ sh_result' = <<command_responses[sh_command]>>
    /\ sh_pc' = "del"
    /\ emitted' = <<>>
    /\ UNCHANGED <<coordVars, now, rxVars, monVars, nodeVars, net, scoreVars,
                   sh_node, sh_command, last_command_node, cmdVars>>

\* C17 mutant: the result is returned and its entry stays
WaitGot_KeepsEntry ==
    /\ sh_pc = "del"
    /\ emitted' = <<Ev("PRINT_RESULT", sh_result[1]), Ev("RETURN", TRUE)>>
    /\ sh_pc' = "idle"
    /\ sh_command' = "none"
    /\ sh_result' = <<>>
    /\ UNCHANGED <<coordVars, now, rxVars, monVars, nodeVars, net, scoreVars,
                   sh_node, last_command_node, cmdVars>>

\* _wait_for_command_response, lines 892-913: the entry is deleted, the
\* result printed and True returned
WaitGot ==
    /\ sh_pc = "del"
    /\ command_responses' = DictDel(command_responses, sh_command)
    /\ emitted' = <<Ev("PRINT_RESULT", sh_result[1]), Ev("RETURN", TRUE)>>
    /\ sh_pc' = "idle"
    /\ sh_command' = "none"
    /\ sh_result' = <<>>
    /\ UNCHANGED <<known_nodes, master_id, initialization_phase, last_heartbeat,
                   join_timestamps, heartbeat_consistency, now, rxVars, monVars,
                   nodeVars, net, scoreVars, sh_node, last_command_node, cmdVars>>

\* _wait_for_command_response gives up: no entry after the timeout
WaitTimeout ==
    /\ sh_pc = "wait"
    /\ sh_command \notin DOMAIN command_responses
    /\ emitted' = <<Ev("PRINT_TIMEOUT", sh_command), Ev("RETURN", FALSE)>>
    /\ sh_pc' = "idle"
    /\ sh_command' = "none"
    /\ UNCHANGED <<coordVars, now, rxVars, monVars, nodeVars, net, scoreVars,
                   sh_node, sh_result, last_command_node, cmdVars>>

\* Node._process_message, lines 173-185: a DRONE_COMMAND reaches node n,
\* is executed and acknowledged; the result is its success field, as
\* _handle_drone_command reports it
NodeCommand(n, command, success) ==
    /\ <<n, command>> \in cmd_net
    /\ cmd_net' = cmd_net \ {<<n, command>>}
    /\ ack_net' = ack_net \cup {<<n, [command |-> command, result |-> success]>>}
    /\ emitted' = <<>>
    /\ UNCHANGED <<coordVars, now, rxVars, monVars, nodeVars, net, scoreVars, shellVars>>

\* a command datagram is lost, or reaches a node that has stopped
CommandLost(n, command) ==
    /\ <<n, command>> \in cmd_net
    /\ cmd_net' = cmd_net \ {<<n, command>>}
    /\ emitted' = <<>>
    /\ UNCHANGED <<coordVars, now, rxVars, monVars, nodeVars, net, scoreVars, shellVars, ack_net>>

\* The operator's shell, the coordinator's receive thread and the nodes'
\* command handling: heartbeats and shutdown notices arrive at any time (the
\* nodes' life cycle is left out, as in Spec), commands and their
\* acknowledgments are datagrams that arrive in any order or not at all.
CmdNext ==
    \/ \E n \in Nodes, t \in {"NODE_HEARTBEAT", "NODE_SHUTDOWN"}, m \in Nodes \cup {None} :
            ProcessNodeMessage(n, t, NoData, m)
    \/ \E a \in ack_net, m \in Nodes \cup {None} :
            ProcessNodeMessage(a[1], "COMMAND_ACK", a[2], m)
    \/ RxAfterSettle
    \/ \E n \in Nodes, c \in Commands : ShellTarget(n, c)
    \/ ShellSend
    \/ \E c \in Commands : ShellBroadcast(c)
    \/ WaitRead
    \/ WaitGot
    \/ WaitTimeout
    \/ \E n \in Nodes, c \in Commands, ok \in BOOLEAN : NodeCommand(n, c, ok)
    \/ \E n \in Nodes, c \in Commands : CommandLost(n, c)

SpecCmd == Init /\ [][CmdNext]_vars

(* ------------------------- the node's commands ------------------------ *)
\* the command names a DRONE_COMMAND can carry; "land" is one that
\* _handle_drone_command does not know
NodeCommands == {"connect", "arm", "disarm", "takeoff", "set_mode", "set_throttle",
                 "get_mode", "get_status", "land"}

\* the params of a DRONE_COMMAND: none (or an empty dict), the parameter the
\* command requires with a value that converts, the parameter with a value
\* that does not convert, a dict without the parameter
ParamKinds == {"none", "ok", "bad", "other"}

\* what a call of the drone controller does: returns a true value, returns
\* a false value, raises
CapOutcomes == {"ok", "fail", "raise"}

\* the result dicts of _handle_drone_command
Result(success, message) == [success |-> success, message |-> message]

\* the default result, lines 59-62
DefaultResult == Result(FALSE, "")

\* the except branch, lines 131-132
ErrorResult == Result(FALSE, "Error executing command")

\* a command that calls the controller; the result when the call returns
Called(connected, call, cap, okResult, failResult) ==
    [result |-> IF cap = "raise" THEN ErrorResult
                ELSE IF cap = "ok" THEN okResult ELSE failResult,
     connected |-> connected,
     calls |-> <<call>>]

\* a command that returns without a call of the controller
NotCalled(connected, result) ==
    [result |-> result, connected |-> connected, calls |-> <<>>]

\* a command with a required parameter that is converted (float, int)
\* before the call, lines 80-89 and 101-110
Converted(connected, call, params, cap, okMessage, missing) ==
    IF params = "ok"
    THEN Called(connected, call, cap, Result(TRUE, okMessage), Result(FALSE, okMessage))
    ELSE IF params = "bad" THEN NotCalled(connected, ErrorResult)
    ELSE NotCalled(connected, Result(FALSE, missing))

\* C25 mutant: only connect is answered while the drone is not connected
handle_drone_command_NoConnectionCheck(connected, command, params, cap) ==
    IF command = "connect"
    THEN IF ~connected
         THEN IF cap = "raise"
              THEN [result |-> ErrorResult, connected |-> connected, calls |-> <<"connect">>]
              ELSE [result |-> Result(cap = "ok", IF cap = "ok" THEN "Connected successfully"
                                                  ELSE "Connection failed"),
                    connected |-> (cap = "ok"), calls |-> <<"connect">>]
         ELSE NotCalled(connected, DefaultResult)
    ELSE IF command = "arm"
    THEN Called(connected, "arm", cap, Result(TRUE, "Armed successfully"),
                Result(FALSE, "Armed successfully"))
    ELSE NotCalled(connected, Result(FALSE, "Drone not connected"))

\* _handle_drone_command, lines 57-134: the result returned, the new value
\* of drone_connected and the calls of the drone controller made
handle_drone_command(connected, command, params, cap) ==
    IF command = "connect"
    THEN IF ~connected
         THEN IF cap = "raise"
              THEN [result |-> ErrorResult, connected |-> connected, calls |-> <<"connect">>]
              ELSE [result |-> Result(cap = "ok", IF cap = "ok" THEN "Connected successfully"
                                                  ELSE "Connection failed"),
                    connected |-> (cap = "ok"), calls |-> <<"connect">>]
         ELSE NotCalled(connected, DefaultResult)
    ELSE IF ~connected
    THEN NotCalled(connected, Result(FALSE, "Drone not connected"))
    ELSE IF command = "arm"
    THEN Called(connected, "arm", cap, Result(TRUE, "Armed successfully"),
                Result(FALSE, "Armed successfully"))
    ELSE IF command = "disarm"
    THEN Called(connected, "disarm", cap, Result(TRUE, "Disarmed successfully"),
                Result(FALSE, "Disarmed successfully"))
    ELSE IF command = "takeoff"
    THEN Converted(connected, "takeoff", params, cap, "Takeoff command sent",
                   "Altitude parameter required")
    ELSE IF command = "set_mode"
    THEN IF params \in {"ok", "bad"}
         THEN Called(connected, "set_flight_mode", cap, Result(TRUE, "Flight mode set"),
                     Result(FALSE, "Flight mode set"))
         ELSE NotCalled(connected, Result(FALSE, "Mode parameter required"))
    ELSE IF command = "set_throttle"
    THEN Converted(connected, "set_throttle", params, cap, "Throttle set",
                   "Throttle value required")
    ELSE IF command = "get_mode"
    THEN Called(connected, "get_current_mode", cap, Result(TRUE, "Current flight mode"),
                Result(FALSE, "Could not retrieve flight mode"))
    ELSE IF command = "get_status"
    THEN Called(connected, "get_drone_status", cap,
                Result(TRUE, "Status retrieved successfully"),
                Result(TRUE, "Status retrieved successfully"))
    ELSE NotCalled(connected, DefaultResult)

\* the calls of the drone controller, as events
CallsOut(n, calls) == [i \in 1..Len(calls) |-> Ev("CALL", calls[i])]

\* the DRONE_COMMAND datagram node n takes from its socket, as an event
RecvCommand(n, command, params) ==
    Ev("RECV_DRONE_COMMAND", [to |-> n, command |-> command, params |-> params])

\* C24 mutant: a failed command is not acknowledged
NodeProcessCommand_AckOnSuccess(n, command, params, cap) ==
    /\ node_state[n] = "running"
    /\ LET r == handle_drone_command(node_drone_connected[n], command, params, cap)
       IN  /\ node_drone_connected' = [node_drone_connected EXCEPT ![n] = r.connected]
           /\ emitted' = <<RecvCommand(n, command, params)>> \o CallsOut(n, r.calls) \o
                 (IF r.result.success
                  THEN <<Ev("COMMAND_ACK",
                            [from |-> n, command |-> command, result |-> r.result])>>
                  ELSE <<>>)
    /\ UNCHANGED <<coordVars, now, rxVars, monVars, node_state, node_master_id,
                   node_is_master, net, scoreVars, shellVars, cmdVars>>

\* Node._process_message, lines 173-185: a DRONE_COMMAND{command, params}
\* reaches the running node n; the command is executed and COMMAND_ACK is
\* handed to _send_to_handler
NodeProcessCommand(n, command, params, cap) ==
    /\ node_state[n] = "running"
    /\ LET r == handle_drone_command(node_drone_connected[n], command, params, cap)
       IN  /\ node_drone_connected' = [node_drone_connected EXCEPT ![n] = r.connected]
           /\ emitted' = <<RecvCommand(n, command, params)>> \o CallsOut(n, r.calls) \o
                 <<Ev("COMMAND_ACK", [from |-> n, command |-> command, result |-> r.result])>>
    /\ UNCHANGED <<coordVars, now, rxVars, monVars, node_state, node_master_id,
                   node_is_master, net, scoreVars, shellVars, cmdVars>>

\* C29 mutant: every node that knows a master sends MASTER_HEARTBEAT
NodeHeartbeatTick_KnowsMaster(n) ==
    /\ node_state[n] = "running"
    /\ emitted' = <<Ev("SEND_HEARTBEAT",
                       [type |-> IF node_master_id[n] # None THEN "MASTER_HEARTBEAT"
                                 ELSE "NODE_HEARTBEAT",
                        from |-> n,
                        status |-> node_drone_connected[n]])>>
    /\ UNCHANGED <<coordVars, now, rxVars, monVars, nodeVars, net, scoreVars,
                   shellVars, cmdVars>>

\* Node._send_heartbeat, lines 189-203: one turn of the heartbeat loop of
\* the running node n; status says whether the armed/mode/altitude
\* snapshot is in the data
NodeHeartbeatTick(n) ==
    /\ node_state[n] = "running"
    /\ emitted' = <<Ev("SEND_HEARTBEAT",
                       [type |-> IF node_is_master[n] THEN "MASTER_HEARTBEAT"
                                 ELSE "NODE_HEARTBEAT",
                        from |-> n,
                        status |-> node_drone_connected[n]])>>
    /\ UNCHANGED <<coordVars, now, rxVars, monVars, nodeVars, net, scoreVars,
                   shellVars, cmdVars>>

\* the types of the other messages that reach a node
OtherTypes == {"NODE_ADDED", "MASTER_HEARTBEAT", "FIRMWARE_INFO"}

\* the message of another type node n takes from its socket, as an event
RecvOther(n, type, from) == Ev("RECV_OTHER", [to |-> n, type |-> type, from |-> from])

\* C30 mutant: a node that hears a master's heartbeat follows that master
NodeOther_FollowsHeartbeat(n, type, from) ==
    /\ node_state[n] = "running"
    /\ emitted' = <<RecvOther(n, type, from)>>
    /\ IF type = "MASTER_HEARTBEAT"
       THEN /\ node_master_id' = [node_master_id EXCEPT ![n] = from]
            /\ node_is_master' = [node_is_master EXCEPT ![n] = (n = from)]
       ELSE UNCHANGED <<node_master_id, node_is_master>>
    /\ UNCHANGED <<coordVars, now, rxVars, monVars, node_state, node_drone_connected,
                   net, scoreVars, shellVars, cmdVars>>

\* Node._process_message, lines 159-185, for a message that is neither
\* NEW_MASTER nor DRONE_COMMAND: neither branch is taken
NodeOther(n, type, from) ==
    /\ node_state[n] = "running"
    /\ emitted' = <<RecvOther(n, type, from)>>
    /\ UNCHANGED <<coordVars, now, rxVars, monVars, nodeVars, net, scoreVars,
                   shellVars, cmdVars>>

\* the nodes followed in SpecNode: one is enough, the nodes do not act on
\* each other
SomeNodes == {1}
\* at most this many NEW_MASTER datagrams are in flight to them
MaxWire == 1

\* NEW_MASTER datagrams in flight to the nodes
RECURSIVE InFlight(_)
InFlight(S) ==
    IF S = {} THEN 0
    ELSE LET n == CHOOSE x \in S : TRUE IN Cardinality(net[n]) + InFlight(S \ {n})

\* the coordinator, or anyone, sends NEW_MASTER{master_id = m} to node n
WireNewMaster(n, m) ==
    /\ node_state[n] # "stopped"
    /\ m \notin net[n]
    /\ InFlight(Nodes) < MaxWire
    /\ net' = [net EXCEPT ![n] = @ \cup {m}]
    /\ emitted' = <<>>
    /\ UNCHANGED <<coordVars, now, rxVars, monVars, nodeVars, scoreVars, shellVars, cmdVars>>

\* The node processes against an arbitrary network: any datagram can reach
\* a node at any time.  The coordinator is left out.
NodeNext ==
    \/ \E n \in SomeNodes : NodeStart(n)
    \/ \E n \in SomeNodes : NodeStop(n)
    \/ \E n \in SomeNodes : NodeStopAgain(n)
    \/ \E n \in SomeNodes : NodeHeartbeatTick(n)
    \/ \E n \in SomeNodes, t \in OtherTypes, from \in Nodes : NodeOther(n, t, from)
    \/ \E n \in SomeNodes, m \in Nodes : WireNewMaster(n, m)
    \/ \E n \in SomeNodes, m \in Nodes : NodeNewMaster(n, m)
    \/ \E n \in SomeNodes, c \in NodeCommands, p \in ParamKinds, cap \in CapOutcomes :
            NodeProcessCommand(n, c, p, cap)

SpecNode == Init /\ [][NodeNext]_vars

(* ----------------------- the sweep, second by second ------------------ *)
\* _monitor_network sleeps this long between two sweeps
sweep_interval == 1
\* the sweep is followed for this many seconds
MaxSweepTime == 8

\* _monitor_network: time.sleep(1) elapses and check_node_status scans, at
\* the time the thread wakes.  The code the thread runs between two sleeps
\* takes no time.
SleepThenScan ==
    /\ mon_pc = "sweep"
    /\ now + sweep_interval <= MaxSweepTime
    /\ now' = now + sweep_interval
    /\ UNCHANGED <<coordVars, rxVars, mon_new_master, nodeVars, net, scoreVars, shellVars, cmdVars>>
    /\ mon_nodes_to_remove' = StaleNodes'
    /\ mon_pc' = IF StaleNodes' = {} THEN "sweep" ELSE "remove"
    /\ emitted' = IF StaleNodes' = {} THEN <<>> ELSE <<Ev("LOG_LOST", SetMin(StaleNodes'))>>

\* assign_new_master called by the monitor thread: time.sleep(1) elapses,
\* then the broadcast; the removal loop goes on after it
SettleThenGoOn ==
    /\ mon_pc = "settle"
    /\ now + sweep_interval <= MaxSweepTime
    /\ now' = now + sweep_interval
    /\ net' = Broadcast(net, known_nodes, mon_new_master)
    /\ emitted' = AfterSettleOut(known_nodes, mon_new_master)
    /\ mon_pc' = IF mon_nodes_to_remove = {} THEN "sweep" ELSE "remove"
    /\ mon_new_master' = None
    /\ UNCHANGED <<coordVars, rxVars, mon_nodes_to_remove, nodeVars, scoreVars, shellVars, cmdVars>>

\* The coordinator against an arbitrary network, with the monitor thread on
\* the clock: time passes only while the monitor thread sleeps, a second at
\* a time.
SweepNext ==
    \/ \E n \in Nodes, t \in MsgTypes, m \in Nodes \cup {None} :
            ProcessNodeMessage(n, t, NoData, m)
    \/ RxAfterSettle
    \/ SleepThenScan
    \/ \E n \in Nodes : MonitorRemove(n)
    \/ SettleThenGoOn

SpecSweep == Init /\ [][SweepNext]_vars

(* ------------------------------ the claims ---------------------------- *)
\* the last step sent an event of this type
Emits(type) == \E i \in 1..Len(emitted) : emitted[i][1] = type
\* the last step sent this event
EmitsEv(type, arg) == \E i \in 1..Len(emitted) : emitted[i] = Ev(type, arg)

\* the step removes the recorded master from the fleet and so runs
\* assign_new_master (check_node_status line 180, process_node_message line 453)
MasterLost ==
    /\ master_id # None
    /\ \E i \in 1..Len(emitted') : emitted'[i] = Ev("NODE_REMOVED", master_id)

\* C1: once no election is in its settle delay and every NEW_MASTER datagram
\* sent has been delivered, in whatever order, every running node that is in
\* known_nodes and has been sent a NEW_MASTER holds the coordinator's
\* master_id as its master.  Under SpecFleet a running node never leaves
\* known_nodes, so a node that has received one NEW_MASTER was a recipient of
\* every later one.
C1_SingleLeaderConvergence ==
    (rx_pc = "recv" /\ \A n \in Nodes : net[n] = {}) =>
        \A n \in Nodes :
            (node_state[n] = "running" /\ n \in known_nodes /\ node_master_id[n] # None)
                => node_master_id[n] = master_id

\* C2: when the master is lost and a node with a greater id remains, the new
\* master is the smallest remaining id strictly greater than the lost
\* master's id.
C2_SuccessorIsNextGreater ==
    [][(MasterLost /\ \E n \in known_nodes' : n > master_id)
          => master_id' = SetMin({n \in known_nodes' : n > master_id})]_vars

\* C2 witness: master 1 was lost with 2 and 3 remaining, and 2 succeeds it
C2_Witness ==
    /\ EmitsEv("NODE_REMOVED", 1) /\ Emits("MASTER_TRANSITION_START")
    /\ known_nodes = {2, 3} /\ master_id = 2

\* C3: when the master is lost, nodes remain and none has a greater id, the
\* coordinator's master_id becomes None: the removed node is not kept as
\* the recorded master.
C3_NoSuccessorClearsMaster ==
    [][(MasterLost /\ known_nodes' # {} /\ \A n \in known_nodes' : n < master_id)
          => master_id' = None]_vars

\* C4: when the master is lost and no node remains, master_id becomes None,
\* a log event is sent, no NEW_MASTER and no transition event is sent, and
\* the thread does not enter the settle delay.
C4_EmptyFleetElection ==
    [][(MasterLost /\ known_nodes' = {})
          => /\ master_id' = None
             /\ Emits("LOG_NO_NODES")'
             /\ ~Emits("NEW_MASTER")'
             /\ ~Emits("MASTER_TRANSITION_START")' /\ ~Emits("MASTER_TRANSITION_END")'
             /\ (rx_pc' = "settle" => rx_pc = "settle")
             /\ (mon_pc' = "settle" => mon_pc = "settle")]_vars

\* C4 witness: the last node, the master, has just been removed
C4_Witness ==
    /\ ~initialization_phase /\ known_nodes = {} /\ master_id = None
    /\ Emits("NODE_REMOVED") /\ Emits("LOG_NO_NODES")

\* C5: after initialization the coordinator has no master only while
\* known_nodes is empty, or an election is under way.
C5_NoMasterOnlyWhileEmpty ==
    (~initialization_phase /\ master_id = None /\ known_nodes # {})
        => (rx_pc = "settle" \/ mon_pc = "settle")

\* C6: initialization_phase, once cleared, is never set again; the cold
\* start (INITIALIZATION_COMPLETE) happens only in a step that registers a
\* new sender during initialization and brings known_nodes to
\* expected_nodes or more, and that step clears initialization_phase; no
\* other step clears it.  So the cold start happens at most once.
C6_ColdStartOnce ==
    [][/\ initialization_phase' => initialization_phase
       /\ Emits("INITIALIZATION_COMPLETE")' =>
             /\ initialization_phase /\ ~initialization_phase'
             /\ \E n \in Nodes : /\ n \notin known_nodes
                                 /\ known_nodes' = known_nodes \cup {n}
                                 /\ EmitsEv("NODE_ADDED", n)'
             /\ Cardinality(known_nodes') >= expected_nodes
       /\ (initialization_phase /\ ~initialization_phase')
             => Emits("INITIALIZATION_COMPLETE")']_vars

\* C6 witness: the cold start has just happened
C6_Witness ==
    /\ ~initialization_phase /\ Emits("INITIALIZATION_COMPLETE")
    /\ master_id \in known_nodes

\* the node that joined first, in the three-node fleet's selection
Earliest ==
    CHOOSE n \in sc_in.tables.known_nodes :
        \A m \in sc_in.tables.known_nodes :
            sc_in.tables.join_timestamps[n] <= sc_in.tables.join_timestamps[m]

\* C7 as stated: with three nodes expected and join times t, t+1, t+5, the
\* node that joined at t is selected, whatever ids the three nodes have.
C7_EarliestWins ==
    (sc_out # <<>> /\ sc_in.expected = 3) => sc_out.master = Earliest

\* C7 amended: with three nodes expected and join times t, t+1, t+5, the
\* node that joined at t is selected when its id is 1.
C7_EarliestWinsWithLowestId ==
    (sc_out # <<>> /\ sc_in.expected = 3 /\ Earliest = 1) => sc_out.master = Earliest

\* C7 witness: node 1 joined first, node 3 last, and node 1 is selected
C7_Witness ==
    /\ sc_out # <<>> /\ sc_in.expected = 3 /\ Earliest = 1
    /\ sc_in.tables.join_timestamps[3] = sc_in.tables.join_timestamps[1] + 5
    /\ sc_out.master = 1

\* C8: every score the cold-start selection computes lies in [0, 1].
C8_ScoreInUnitInterval ==
    sc_out # <<>> =>
        \A n \in DOMAIN sc_out.scores :
            0 <= sc_out.scores[n] /\ sc_out.scores[n] <= ScoreDen(sc_in.expected)

\* C8 witness: with nine expected, node 10 joined a full window late and
\* node 1 first, and both were scored
C8_Witness ==
    /\ sc_out # <<>> /\ sc_in.expected = 9
    /\ {1, 10} \subseteq DOMAIN sc_out.scores
    /\ sc_in.tables.join_timestamps[10] >= sc_in.tables.join_timestamps[1] + JoinWindow
    /\ sc_out.scores[10] < sc_out.scores[1]

\* C9 as stated: a node with fewer than two interval samples gets nothing
\* for consistency.
C9_FewSamplesContributeNothing ==
    sc_out # <<>> =>
        \A n \in DOMAIN sc_out.consistency :
            Len(sc_in.tables.heartbeat_consistency[n]) < 2 => sc_out.consistency[n] = 0

\* C9 amended: every node scored at the cold start has at least one recorded
\* interval, and a node with exactly one gets the whole consistency weight,
\* 0.4 (its standard deviation is taken as 0).
C9_OneSampleContributesAll ==
    sc_out # <<>> =>
        \A n \in DOMAIN sc_out.consistency :
            /\ Len(sc_in.tables.heartbeat_consistency[n]) >= 1
            /\ Len(sc_in.tables.heartbeat_consistency[n]) = 1
                  => 5 * sc_out.consistency[n] = 2 * ScoreDen(sc_in.expected)

\* C9 witness: a selection in which node 2 has one recorded interval and
\* node 1 has more
C9_Witness ==
    /\ sc_out # <<>> /\ {1, 2} \subseteq DOMAIN sc_out.consistency
    /\ Len(sc_in.tables.heartbeat_consistency[2]) = 1
    /\ Len(sc_in.tables.heartbeat_consistency[1]) > 1
    /\ sc_out.consistency[2] > 0

\* C10: every step that elects a master sends MASTER_TRANSITION_START and
\* holds NEW_MASTER back until after the settle delay.
C10_ElectionEnvelope ==
    [][(master_id' # master_id /\ master_id' # None)
          => (Emits("MASTER_TRANSITION_START")' /\ ~Emits("NEW_MASTER")')]_vars

\* C11: while the monitor thread runs, no node stays in known_nodes longer
\* than heartbeat_timeout + sweep_interval after its last processed
\* message, also when a sweep removes the master and runs an election.
C11_EvictionTiming ==
    mon_pc # "dead" =>
        \A n \in known_nodes :
            now - last_heartbeat[n] <= heartbeat_timeout + sweep_interval

\* C12: no step removes a node's last_heartbeat entry or lowers its value,
\* whatever message is processed.
C12_LastHeartbeatMonotone ==
    [][\A n \in DOMAIN last_heartbeat :
          n \in DOMAIN last_heartbeat' /\ last_heartbeat'[n] >= last_heartbeat[n]]_vars

\* C12 witness: during initialization a message of node 1, processed after
\* the one that registered it, has refreshed its last_heartbeat
C12_Witness ==
    /\ initialization_phase /\ 1 \in known_nodes
    /\ last_heartbeat[1] = now /\ join_timestamps[1] < now
    /\ Len(heartbeat_consistency[1]) > 1

\* the step is one of the monitor thread's, in the removal loop of a sweep
SweepRemovalStep ==
    /\ mon_pc = "remove"
    /\ mon_pc' # mon_pc \/ mon_nodes_to_remove' # mon_nodes_to_remove

\* C13: a sweep's scan marks exactly the known nodes whose last processed
\* message is older than heartbeat_timeout; each step of its removal loop
\* removes one marked node and no other, sends one NODE_REMOVED for it, and
\* runs the election if and only if that node is master_id; and when the
\* sweep is over none of the marked nodes is left in known_nodes.
C13_SweepRemovesExactlyStale ==
    [][/\ (mon_pc = "sweep" /\ mon_pc' = "remove") =>
             mon_nodes_to_remove' =
                 {n \in known_nodes : now - last_heartbeat[n] > heartbeat_timeout}
       /\ (SweepRemovalStep /\ known_nodes' # known_nodes) =>
             \E n \in mon_nodes_to_remove :
                 /\ known_nodes' = known_nodes \ {n}
                 /\ \E i \in 1..Len(emitted') : emitted'[i] = Ev("NODE_REMOVED", n)
                 /\ Cardinality({i \in 1..Len(emitted') : emitted'[i][1] = "NODE_REMOVED"}) = 1
                 /\ (n = master_id) <=>
                        \E i \in 1..Len(emitted') :
                            emitted'[i][1] \in {"MASTER_TRANSITION_START", "LOG_NO_ELIGIBLE",
                                                "LOG_NO_NODES"}
       /\ (mon_pc \in {"remove", "settle"} /\ mon_pc' \notin {"remove", "settle"}) =>
             mon_nodes_to_remove \cap known_nodes' = {}]_vars

\* C14: a step that processes a message of a sender that is not in
\* known_nodes (a COMMAND_ACK taken from the network, or the first message
\* ever of that sender) adds the sender to known_nodes and sends exactly
\* one NODE_ADDED for it, in either phase (a NODE_SHUTDOWN of an unknown
\* sender registers it and removes it again in the same step).
C14_UnknownSenderRegistered ==
    [][\A n \in Nodes :
          (/\ n \notin known_nodes
           /\ \/ \E a \in ack_net : a[1] = n /\ a \notin ack_net'
              \/ n \notin DOMAIN last_heartbeat /\ n \in DOMAIN last_heartbeat')
          => /\ \/ n \in known_nodes'
                \/ \E i \in 1..Len(emitted') : emitted'[i] = Ev("NODE_REMOVED", n)
             /\ Cardinality({i \in 1..Len(emitted') : emitted'[i] = Ev("NODE_ADDED", n)}) = 1]_vars

\* C15: in the INITIALIZING phase a message whose type is not
\* NODE_HEARTBEAT, NODE_ADDED or COMMAND_ACK (the NODE_SHUTDOWN of a stopped
\* node, the MASTER_HEARTBEAT of a master) is dropped: processing it leaves
\* known_nodes, master_id and the phase as they were.
C15_InitDropsOtherTypes ==
    [][\A n \in Nodes, t \in MsgTypes \ InitTypes, m \in Nodes \cup {None} :
          (/\ initialization_phase
           /\ CanArrive(n, t)
           /\ t = "MASTER_HEARTBEAT" => node_is_master[n]
           /\ ProcessNodeMessage(n, t, NoData, m))
          => /\ known_nodes' = known_nodes
             /\ master_id' = master_id
             /\ initialization_phase' = initialization_phase]_vars

\* send_drone_command runs in this step (the shell's do_<command> calls it)
DispatchStep == sh_pc = "send" /\ sh_pc' # "send"

\* the value send_drone_command returned in this step
Returned(ret) == \E i \in 1..Len(emitted') : emitted'[i] = Ev("RETURN", ret)

\* C16 as stated: send_drone_command returns true exactly when the node is
\* in known_nodes, having sent one DRONE_COMMAND to it without waiting for
\* an ack; for an unknown node it returns false, sends nothing and leaves
\* known_nodes, master_id and command_responses as they were.
C16_DispatchTrueIffKnown ==
    [][DispatchStep =>
         /\ Returned(TRUE) <=> sh_node \in known_nodes
         /\ sh_node \in known_nodes =>
               /\ <<sh_node, sh_command>> \in cmd_net'
               /\ cmd_net' \ cmd_net \subseteq {<<sh_node, sh_command>>}
         /\ sh_node \notin known_nodes => cmd_net' = cmd_net
         /\ UNCHANGED <<known_nodes, master_id, command_responses, ack_net>>]_vars

\* C16, amended: send_drone_command returns true exactly when the node is
\* in known_nodes and the send did not fail, having sent one DRONE_COMMAND
\* to it without waiting for an ack; for an unknown node, and when the send
\* fails, it returns false and sends nothing; it never changes known_nodes,
\* master_id or command_responses.
C16_DispatchTrueIffSent ==
    [][DispatchStep =>
         /\ Returned(TRUE) \/ Returned(FALSE)
         /\ Returned(TRUE) =>
               /\ sh_node \in known_nodes
               /\ emitted' = <<Ev("LOG_SENT", sh_node), Ev("RETURN", TRUE)>>
               /\ <<sh_node, sh_command>> \in cmd_net'
               /\ cmd_net' \ cmd_net \subseteq {<<sh_node, sh_command>>}
         /\ Returned(FALSE) =>
               /\ cmd_net' = cmd_net
               /\ emitted' \in {<<Ev("LOG_UNKNOWN_NODE", sh_node), Ev("RETURN", FALSE)>>,
                                <<Ev("LOG_SEND_ERROR", sh_node), Ev("RETURN", FALSE)>>}
         /\ sh_node \notin known_nodes =>
               emitted' = <<Ev("LOG_UNKNOWN_NODE", sh_node), Ev("RETURN", FALSE)>>
         /\ UNCHANGED <<known_nodes, master_id, command_responses, ack_net>>]_vars

\* C16 witnesses: send_drone_command has just refused a node that left
\* known_nodes after the shell had accepted it, with another node's ack
\* waiting in command_responses
C16_Witness ==
    /\ \E n \in Nodes \ known_nodes :
          emitted = <<Ev("LOG_UNKNOWN_NODE", n), Ev("RETURN", FALSE)>>
    /\ master_id # None
    /\ DOMAIN command_responses # {}

\* the acks processed in this step
AcksProcessed == ack_net \ ack_net'

\* C17: the command round trip.  A processed COMMAND_ACK stores its result
\* under its command; _wait_for_command_response reads the stored result,
\* deletes that entry and no other, and returns what it read; it returns
\* "no response" only when the command has no entry, and then leaves
\* command_responses as it was, so a second wait without a new ack gets
\* "no response".
C17_CommandRoundTrip ==
    [][/\ \A a \in AcksProcessed :
             /\ a[2].command \in DOMAIN command_responses'
             /\ command_responses'[a[2].command] = a[2].result
       /\ (sh_pc = "wait" /\ sh_pc' = "del") =>
             /\ sh_command \in DOMAIN command_responses
             /\ sh_result' = <<command_responses[sh_command]>>
             /\ command_responses' = command_responses
       /\ (sh_pc = "del" /\ sh_pc' = "idle") =>
             /\ emitted' = <<Ev("PRINT_RESULT", sh_result[1]), Ev("RETURN", TRUE)>>
             /\ sh_command \notin DOMAIN command_responses'
             /\ \A c \in Commands \ {sh_command} :
                   /\ c \in DOMAIN command_responses' <=> c \in DOMAIN command_responses
                   /\ c \in DOMAIN command_responses =>
                         command_responses'[c] = command_responses[c]
       /\ (sh_pc = "wait" /\ sh_pc' = "idle") =>
             /\ emitted' = <<Ev("PRINT_TIMEOUT", sh_command), Ev("RETURN", FALSE)>>
             /\ sh_command \notin DOMAIN command_responses
             /\ command_responses' = command_responses]_vars

\* C17 witness: the wait for one command has just returned the failure its
\* ack reported, and the result of the other command is still stored
C17_Witness ==
    /\ emitted = <<Ev("PRINT_RESULT", FALSE), Ev("RETURN", TRUE)>>
    /\ DOMAIN command_responses # {}
    /\ sh_pc = "idle"

\* C18: command_responses holds at most one result per command name, the
\* result of the most recently processed COMMAND_ACK for that name that no
\* wait has consumed: a processed ack puts its result there whatever was
\* stored and whichever node sent it, and no other step puts or changes a
\* result (a wait that returns deletes the one of its command).
C18_MailboxHoldsLatestAck ==
    [][/\ DOMAIN command_responses' \subseteq Commands
       /\ \A a \in AcksProcessed :
             /\ a[2].command \in DOMAIN command_responses'
             /\ command_responses'[a[2].command] = a[2].result
       /\ \A c \in DOMAIN command_responses' :
             \/ \E a \in AcksProcessed : a[2].command = c
             \/ c \in DOMAIN command_responses /\ command_responses'[c] = command_responses[c]
       /\ \A c \in DOMAIN command_responses \ DOMAIN command_responses' :
             sh_pc = "del" /\ sh_pc' = "idle" /\ c = sh_command]_vars

\* C18 witness: the ack of one node has just replaced the result another
\* node had reported for the same command, which the waiting shell has read
\* and not yet deleted
C18_Witness ==
    /\ sh_pc = "del"
    /\ sh_command \in DOMAIN command_responses
    /\ sh_result # <<command_responses[sh_command]>>
    /\ \E n \in Nodes : emitted = AckOut(n)

\* C19: while the cold start is still to come, the coordinator holds a join
\* time and a heartbeat-interval history only for the nodes in known_nodes:
\* those of a removed node are gone, whichever way it was removed.
C19_RecordDestroyedOnRemoval ==
    initialization_phase =>
        /\ DOMAIN join_timestamps \subseteq known_nodes
        /\ DOMAIN heartbeat_consistency \subseteq known_nodes

\* the receive loop can process a datagram now
ReceiveLoopRuns ==
    ENABLED (\E n \in Nodes, t \in MsgTypes, m \in Nodes \cup {None} :
                ProcessNodeMessage(n, t, NoData, m))

\* the sweep can scan, or go on removing the nodes it has marked
SweepRuns == ENABLED (MonitorScan \/ \E n \in Nodes : MonitorRemove(n))

\* C20: while a successor election is in its settle delay, started by the
\* sweep or by a NODE_SHUTDOWN, the receive loop can process datagrams and
\* the sweep (unless its thread has died) can run.
C20_ElectionRunsConcurrently ==
    (mon_pc # "dead" /\ (rx_pc = "settle" \/ mon_pc = "settle"))
        => (ReceiveLoopRuns /\ SweepRuns)

\* C21: the receive loop and the sweep exclude each other: the nodes the
\* sweep has marked and is about to remove are still in known_nodes, and
\* the monitor thread never ends abnormally.
C21_SweepExcludesReceive ==
    /\ mon_pc = "remove" => mon_nodes_to_remove \subseteq known_nodes
    /\ mon_pc # "dead"

\* the replay of send_network_state ends in this step
ReplayEnds == rx_pc = "replay" /\ rx_pc' = "recv"

\* C22: the replay that answers GUI_CONNECTED sends NODE_ADDED for nodes
\* that are in known_nodes, ends with one MASTER_CHANGED carrying master_id
\* when there is a master, and names no node that has left known_nodes,
\* in the MASTER_CHANGED either.
C22_ReplayNamesKnownNodes ==
    [][rx_pc = "replay" =>
         /\ \A i \in 1..Len(emitted') :
               emitted'[i][1] \in {"NODE_ADDED", "MASTER_CHANGED"} =>
                   emitted'[i][2] \in known_nodes
         /\ (ReplayEnds /\ master_id # None /\ Cardinality(known_nodes) = rx_iter.len) =>
               emitted' = <<Ev("MASTER_CHANGED", master_id)>>]_vars

\* C23: on every node is_master is true exactly when the node's master_id
\* is its own id, and each NEW_MASTER a running node processes sets its
\* master_id to the id carried, whatever it was before.
C23_IsMasterIffOwnId ==
    [][/\ \A n \in Nodes : node_is_master'[n] <=> (node_master_id'[n] = n)
       /\ \A n \in Nodes, m \in Nodes :
             (node_state'[n] = "running" /\ m \in net[n] /\ m \notin net'[n])
                 => node_master_id'[n] = m]_vars

\* C23 witness: node 3 has taken the NEW_MASTER that names it and, after
\* it, the older one that names node 2: it follows node 2 and is no master,
\* while the coordinator's master is node 3
C23_Witness ==
    /\ node_state[3] = "running"
    /\ master_id = 3
    /\ node_master_id[3] = 2 /\ ~node_is_master[3]
    /\ net[3] = {}

\* the COMMAND_ACK datagrams among the events of the last step
AcksSent == {i \in 1..Len(emitted) : emitted[i][1] = "COMMAND_ACK"}

\* a node has processed a DRONE_COMMAND in the last step
CommandProcessed == emitted # <<>> /\ emitted[1][1] = "RECV_DRONE_COMMAND"

\* C24: every DRONE_COMMAND a node processes produces exactly one
\* COMMAND_ACK, with the command's name and a result whose success field is
\* a boolean, as the last thing the node does for it: whatever the name,
\* the parameters and the outcome of the call of the controller.
C24_OneAckPerCommand ==
    CommandProcessed =>
        /\ AcksSent = {Len(emitted)}
        /\ emitted[Len(emitted)][2].from = emitted[1][2].to
        /\ emitted[Len(emitted)][2].command = emitted[1][2].command
        /\ emitted[Len(emitted)][2].result.success \in BOOLEAN

\* C24 witness: a connected node has acknowledged a command whose call of
\* the controller raised
C24_Witness ==
    /\ Len(emitted) = 3
    /\ emitted[1][1] = "RECV_DRONE_COMMAND"
    /\ emitted[2] = Ev("CALL", "arm")
    /\ emitted[3][1] = "COMMAND_ACK"
    /\ emitted[3][2].result = ErrorResult

\* the calls of the controller among the events of the last step
CallsMade == {i \in 1..Len(emitted) : emitted[i][1] = "CALL"}

\* C25: a command other than connect that a node processes while its drone
\* is not connected is answered success = false with a message, and the
\* controller is not called; takeoff, set_mode and set_throttle without
\* their parameter are answered success = false.
C25_ControlErrorsBecomeFailures ==
    CommandProcessed =>
        LET rcv == emitted[1][2]
            ack == emitted[Len(emitted)][2]
        IN  /\ (rcv.command # "connect" /\ ~node_drone_connected[rcv.to]) =>
                  /\ ack.result.success = FALSE
                  /\ ack.result.message # ""
                  /\ CallsMade = {}
            /\ (rcv.command \in {"takeoff", "set_mode", "set_throttle"}
                    /\ rcv.params \in {"none", "other"}) =>
                  /\ ack.result.success = FALSE
                  /\ CallsMade = {}

\* C25 witness: a node whose drone is connected has refused a takeoff that
\* came without its altitude
C25_Witness ==
    /\ CommandProcessed
    /\ emitted[1][2].command = "takeoff"
    /\ emitted[1][2].params = "other"
    /\ node_drone_connected[emitted[1][2].to]
    /\ emitted[Len(emitted)][2].result = Result(FALSE, "Altitude parameter required")

\* the places of the events of one type among the events of the last step
Places(type) == {i \in 1..Len(emitted) : emitted[i][1] = type}

\* stop() has run in the last step
StopRan == Places("SOCKET_CLOSE") # {} \/ Places("SEND_NODE_SHUTDOWN") # {}
              \/ emitted = <<Ev("CALL", "cleanup")>>

\* C26: stop() of a running node sends NODE_SHUTDOWN before it closes the
\* socket and before it releases the drone controller's session; stop() of
\* a node that has stopped sends no NODE_SHUTDOWN (so at most one is sent).
C26_ShutdownNoticeFirst ==
    StopRan =>
        /\ Cardinality(Places("SEND_NODE_SHUTDOWN")) <= 1
        /\ \A i \in Places("SEND_NODE_SHUTDOWN") :
              \A j \in Places("SOCKET_CLOSE") \cup Places("CALL") :
                  i < j
        /\ Places("SEND_NODE_SHUTDOWN") = {} => Places("CALL") = {}

\* a message type process_node_message has no branch for
UnknownType == "FIRMWARE_INFO"

\* C27: an envelope of an unrecognized type does not stop the receive
\* loop, which goes on to the next datagram, and changes neither
\* known_nodes nor master_id.
C27_UnrecognizedEnvelopeDropped ==
    [][\A n \in Nodes, m \in Nodes \cup {None} :
          ProcessNodeMessage(n, UnknownType, NoData, m) =>
              /\ rx_pc' = "recv"
              /\ known_nodes' = known_nodes
              /\ master_id' = master_id]_vars

\* C28: each value appended to a node's heartbeat_consistency list is the
\* time between the processing of the node's previous message and the
\* processing of this one.
C28_IntervalIsElapsedTime ==
    [][\A n \in DOMAIN heartbeat_consistency \cap DOMAIN heartbeat_consistency' :
          (heartbeat_consistency'[n] # heartbeat_consistency[n] /\ n \in DOMAIN last_heartbeat)
          => heartbeat_consistency'[n][Len(heartbeat_consistency'[n])]
                 = now - last_heartbeat[n]]_vars

\* C29: a turn of a node's heartbeat loop sends MASTER_HEARTBEAT when the
\* node's is_master is true and NODE_HEARTBEAT otherwise, with the drone's
\* armed/mode/altitude snapshot exactly when the drone is connected.
C29_HeartbeatTypeFollowsRole ==
    \A i \in Places("SEND_HEARTBEAT") :
        LET hb == emitted[i][2]
        IN  /\ Len(emitted) = 1
            /\ hb.type = (IF node_is_master[hb.from] THEN "MASTER_HEARTBEAT"
                           ELSE "NODE_HEARTBEAT")
            /\ hb.status = node_drone_connected[hb.from]

\* C29 witness: the master, its drone connected, has sent its heartbeat
\* with the snapshot
C29_Witness ==
    \E n \in SomeNodes :
        /\ node_is_master[n] /\ node_drone_connected[n]
        /\ emitted = <<Ev("SEND_HEARTBEAT",
                          [type |-> "MASTER_HEARTBEAT", from |-> n, status |-> TRUE])>>

\* C30: a message a node receives whose type is neither NEW_MASTER nor
\* DRONE_COMMAND leaves the node's master_id, is_master and drone_connected
\* as they were, and the node sends nothing.
C30_OtherTypesIgnored ==
    [][(emitted' # <<>> /\ emitted'[1][1] = "RECV_OTHER") =>
          /\ Len(emitted') = 1
          /\ UNCHANGED <<node_state, node_master_id, node_is_master, node_drone_connected>>]_vars

\* C30 witness: the master, its drone connected, has received another
\* node's MASTER_HEARTBEAT and is still the master
C30_Witness ==
    /\ emitted = <<RecvOther(1, "MASTER_HEARTBEAT", 2)>>
    /\ node_is_master[1] /\ node_master_id[1] = 1
    /\ node_drone_connected[1]


\* C31: in every coordinator state in which no election is in its settle
\* delay (neither the receive thread nor the monitor thread sleeps inside
\* assign_new_master), master_id is None or a member of known_nodes.
C31_MasterIsKnownOrNone ==
    (rx_pc # "settle" /\ mon_pc # "settle")
        => (master_id = None \/ master_id \in known_nodes)


(* ---------------- the fleet under the heartbeat sweep ------------------ *)
\* what a running node sends on its own: its announcement and its heartbeats
HeartbeatTypes == {"NODE_ADDED", "NODE_HEARTBEAT", "MASTER_HEARTBEAT"}

\* The receive thread, the monitor thread, the clock and node processes
\* that start and keep running: a running node's heartbeats can be late or
\* lost, so the sweep can evict (check_node_status, lines 171-181) a node
\* that is still running, and a heartbeat of that node arriving later
\* registers it again (process_node_message, lines 417-432).  No node
\* stops, so every election here is started by the sweep.
EvictNext ==
    \/ \E n \in Nodes, t \in HeartbeatTypes, m \in Nodes \cup {None} :
            CanArrive(n, t) /\ ProcessNodeMessage(n, t, NoData, m)
    \/ \E n \in Nodes : NodeStart(n)
    \/ \E n \in Nodes, m \in Nodes : NodeNewMaster(n, m)
    \/ MonitorScan
    \/ \E n \in Nodes : MonitorRemove(n)
    \/ MonitorAfterSettle
    \/ Tick

SpecEvict == Init /\ [][EvictNext]_vars

\* the running nodes whose is_master flag is set
RunningMasters == {n \in Nodes : node_state[n] = "running" /\ node_is_master[n]}

\* no election sleeps in its settle delay and every NEW_MASTER sent has been
\* delivered
ElectionsSettled ==
    /\ rx_pc # "settle" /\ mon_pc # "settle"
    /\ \A n \in Nodes : net[n] = {}

\* C32: once every in-flight NEW_MASTER is delivered, at most one running
\* node has is_master true, also after a master that is still running was
\* evicted for heartbeat timeout and a successor was elected.
C32_AtMostOneRunningMaster ==
    (ElectionsSettled /\ mon_pc = "sweep") => Cardinality(RunningMasters) <= 1


(* ------------------- the fleet, with its threads running --------------- *)
\* SpecFleet with the scheduling the threads give: a node's receive loop
\* (Node._handle_messages) processes every NEW_MASTER delivered to it, and
\* an election that sleeps in its settle delay wakes up and broadcasts.
SpecFleetFair ==
    /\ SpecFleet
    /\ \A n \in Nodes : WF_vars(\E m \in Nodes : NodeNewMaster(n, m))
    /\ WF_vars(RxAfterSettle)

\* the last step registered node n in STEADY phase (lines 417-432) while the
\* coordinator has a master, and n is running
JoinedSteady(n) ==
    /\ EmitsEv("LOG_JOINED", n)
    /\ master_id # None
    /\ node_state[n] = "running"

\* the last step started or finished an election
ElectionStep == Emits("MASTER_TRANSITION_START") \/ Emits("NEW_MASTER")

\* C33: a node that joins in STEADY phase while the coordinator has a master
\* eventually holds the coordinator's master_id as its own master_id, unless
\* a further election occurs first (or the node or the master stops).
C33_LateJoinerLearnsMaster ==
    \A n \in Nodes :
        JoinedSteady(n) ~> (\/ node_master_id[n] = master_id
                            \/ ElectionStep
                            \/ \E k \in {n, master_id} \cap Nodes :
                                    node_state[k] # "running")


\* the receive thread stamps last_heartbeat with the current time for every
\* datagram (line 351) and handles none while it sleeps in an election, so
\* while rx_pc = "settle" the latest stamp is the time its sleep began
RxSettleStart == SetMax({last_heartbeat[n] : n \in DOMAIN last_heartbeat})

\* C34: at most one election is in progress at any time: while the election
\* started by the receive thread is in its settle delay (time.sleep(1), not
\* yet over), the monitor thread does not start a second election.
C34_OneElectionAtATime ==
    ~(/\ rx_pc = "settle" /\ mon_pc = "settle"
      /\ now - RxSettleStart <= sweep_interval)


\* the DRONE_COMMAND datagrams for command c that have not reached a node
Undelivered(c) == {d \in cmd_net : d[2] = c}

\* C35: the result the operator's wait for command c reads was reported by
\* an ack sent in response to the dispatch that preceded the wait: when the
\* wait has read a result, the dispatched DRONE_COMMAND has reached its node
\* (while the shell waits nothing else is dispatched, so a datagram for c
\* that is still in flight is the one the shell sent, and no ack answers it
\* yet).
C35_ResultAnswersDispatch ==
    sh_pc = "del" => Undelivered(sh_command) = {}


\* the last step was the sweep's removal of the master, which started an
\* election in the monitor thread (the receive thread's election also logs
\* the departure)
SweepElected ==
    /\ mon_pc = "settle"
    /\ Emits("MASTER_TRANSITION_START")
    /\ ~Emits("LOG_LEFT")

\* C36: the successor elected when the sweep removes the master is not one
\* of the nodes the same sweep has marked for removal.
C36_ElectedNotMarkedStale ==
    SweepElected => master_id \notin mon_nodes_to_remove


\* C37: after the cold start, every change of master_id is a successor
\* election to a greater id or the clearing to None, so a known node with an
\* id lower than the master's is never elected; and once master_id is None
\* it stays None, whatever joins.
C37_MasterIdsIncrease ==
    [][~initialization_phase =>
          /\ master_id' # master_id =>
                /\ master_id # None
                /\ master_id' = None \/ master_id' > master_id
          /\ master_id = None => master_id' = None]_vars

\* C37 witness: the second successor election in a row has just announced
\* node 3 while node 1, whose id is lower, is known and was passed over
C37_Witness ==
    /\ EmitsEv("NEW_MASTER", 3) /\ Emits("MASTER_TRANSITION_END")
    /\ master_id = 3
    /\ 1 \in known_nodes
    /\ 2 \in DOMAIN last_heartbeat /\ 2 \notin known_nodes


\* C38: while the phase is INITIALIZING, master_id is None and no NEW_MASTER
\* is broadcast, whatever joins, heartbeats and heartbeat-timeout evictions
\* occur before the expected node count is reached.
C38_NoMasterWhileInitializing ==
    initialization_phase =>
        /\ master_id = None
        /\ ~Emits("NEW_MASTER")
        /\ \A n \in Nodes : net[n] = {}
        /\ rx_pc # "settle" /\ mon_pc # "settle"

\* C38 witness: node 1 joined and was evicted for heartbeat timeout, and now
\* node 2 has joined: two nodes have joined, one is known, the phase is
\* still INITIALIZING
C38_Witness ==
    /\ initialization_phase
    /\ EmitsEv("LOG_INIT_JOIN", 2)
    /\ 1 \in DOMAIN last_heartbeat /\ 1 \notin known_nodes


(* ------------------ stop() against the heartbeat thread ---------------- *)
\* Node.stop() of a running node, lines 211-214: the cleanup of a connected
\* drone, then the NODE_SHUTDOWN notice; is_running is still True and the
\* socket open.  When cleanup raises, stop ends there.
StopNotice(n) ==
    /\ node_state[n] = "running"
    /\ \E cleanup_ok \in BOOLEAN :
         IF node_drone_connected[n] /\ ~cleanup_ok
         THEN /\ emitted' = <<Ev("CALL", "cleanup")>>
              /\ UNCHANGED node_state
         ELSE /\ node_state' = [node_state EXCEPT ![n] = "noticed"]
              /\ emitted' = (IF node_drone_connected[n]
                             THEN <<Ev("CALL", "cleanup")>> ELSE <<>>)
                            \o <<Ev("SEND_NODE_SHUTDOWN", n)>>
    /\ UNCHANGED <<coordVars, now, rxVars, monVars, node_master_id, node_is_master,
                   node_drone_connected, net, scoreVars, shellVars, cmdVars>>

\* Node.stop(), lines 215-216: is_running = False and socket.close(); the
\* datagrams still in flight to the node are gone
StopHalt(n) ==
    /\ node_state[n] = "noticed"
    /\ node_state' = [node_state EXCEPT ![n] = "stopped"]
    /\ net' = [net EXCEPT ![n] = {}]
    /\ emitted' = <<Ev("SOCKET_CLOSE", n)>>
    /\ UNCHANGED <<coordVars, now, rxVars, monVars, node_master_id, node_is_master,
                   node_drone_connected, scoreVars, shellVars, cmdVars>>

\* Node._send_heartbeat, one turn of its loop (lines 189-203) in the
\* heartbeat thread: is_running is read as True and the heartbeat is sent
HeartbeatLoopTurn(n) ==
    /\ node_state[n] \in {"running", "noticed"}
    /\ emitted' = <<Ev("SEND_HEARTBEAT",
                       [type |-> IF node_is_master[n] THEN "MASTER_HEARTBEAT"
                                 ELSE "NODE_HEARTBEAT",
                        from |-> n,
                        status |-> node_drone_connected[n]])>>
    /\ UNCHANGED <<coordVars, now, rxVars, monVars, nodeVars, net, scoreVars,
                   shellVars, cmdVars>>

\* The node processes with stop() taken statement by statement, so that the
\* heartbeat thread can run between its statements.  The coordinator is
\* left out.
StopNext ==
    \/ \E n \in SomeNodes : NodeStart(n)
    \/ \E n \in SomeNodes : StopNotice(n)
    \/ \E n \in SomeNodes : StopHalt(n)
    \/ \E n \in SomeNodes : NodeStopAgain(n)
    \/ \E n \in SomeNodes : HeartbeatLoopTurn(n)
    \/ \E n \in SomeNodes, m \in Nodes : WireNewMaster(n, m)
    \/ \E n \in SomeNodes, m \in Nodes : NodeNewMaster(n, m)
    \/ \E n \in SomeNodes, c \in NodeCommands, p \in ParamKinds, cap \in CapOutcomes :
            NodeProcessCommand(n, c, p, cap)

SpecStop == Init /\ [][StopNext]_vars

\* C39: a node that has sent its NODE_SHUTDOWN notice sends no heartbeat,
\* however stop() and the heartbeat thread interleave.
C39_NoHeartbeatAfterShutdown ==
    \A n \in Nodes :
        node_state[n] \in {"noticed", "stopped"} =>
            \A i \in 1..Len(emitted) :
                emitted[i][1] = "SEND_HEARTBEAT" => emitted[i][2].from # n


(* --------------------------- target selection -------------------------- *)
\* do_select with an integer argument, lines 599-612
ShellSelect(arg) ==
    /\ sh_pc = "idle"
    /\ IF arg \in known_nodes
       THEN /\ last_command_node' = arg
            /\ emitted' = <<Ev("INPUT_SELECT", arg), Ev("PRINT_SELECTED", arg)>>
       ELSE /\ emitted' = <<Ev("INPUT_SELECT", arg), Ev("PRINT_NOT_CONNECTED", arg)>>
            /\ UNCHANGED last_command_node
    /\ UNCHANGED <<coordVars, now, rxVars, monVars, nodeVars, net, scoreVars,
                   sh_pc, sh_node, sh_result, sh_command, cmdVars>>

\* do_arm with no argument, up to _get_target_node, lines 874-883: the
\* target is the selected node when it is still in known_nodes
ShellNoTarget(command) ==
    /\ sh_pc = "idle"
    /\ IF last_command_node # None
       THEN IF last_command_node \in known_nodes
            THEN /\ sh_pc' = "send"
                 /\ sh_node' = last_command_node
                 /\ sh_command' = command
                 /\ emitted' = <<Ev("INPUT_NO_TARGET", command)>>
                 /\ UNCHANGED <<sh_result, last_command_node>>
            ELSE /\ emitted' = <<Ev("INPUT_NO_TARGET", command),
                                 Ev("PRINT_NO_LONGER_CONNECTED", last_command_node)>>
                 /\ last_command_node' = None
                 /\ UNCHANGED <<sh_pc, sh_node, sh_result, sh_command>>
       ELSE /\ emitted' = <<Ev("INPUT_NO_TARGET", command), Ev("PRINT_NO_SELECTION", 0)>>
            /\ UNCHANGED shellVars
    /\ UNCHANGED <<coordVars, now, rxVars, monVars, nodeVars, net, scoreVars, cmdVars>>

\* do_stop with no argument, lines 830-844: set_mode BRAKE is broadcast to
\* every known node (_broadcast_command, lines 614-636), no wait; sendto
\* raises for the nodes in failed
ShellStopNoTarget ==
    /\ sh_pc = "idle"
    /\ IF known_nodes = {}
       THEN /\ emitted' = <<Ev("INPUT_NO_TARGET", "stop"), Ev("PRINT_NO_NODES", 0)>>
            /\ UNCHANGED cmd_net
       ELSE \E failed \in SUBSET known_nodes :
              LET sent == UNION {send_drone_command(known_nodes, n, "set_mode",
                                                    n \notin failed).sent : n \in known_nodes}
              IN  /\ InFlightRoom(sent)
                  /\ cmd_net' = cmd_net \cup sent
                  /\ emitted' = <<Ev("INPUT_NO_TARGET", "stop"),
                                  Ev("DRONE_COMMAND_ALL", Cardinality(sent))>>
    /\ UNCHANGED <<coordVars, now, rxVars, monVars, nodeVars, net, scoreVars, shellVars, ack_net>>

\* The operator's shell with its selection, the coordinator's receive
\* thread, and command datagrams that leave the wire: nodes join and leave
\* at any time, so a selected node can be gone when a command is entered.
\* No acknowledgment arrives, so every wait ends by its timeout.
SelectNext ==
    \/ \E n \in Nodes, t \in {"NODE_HEARTBEAT", "NODE_SHUTDOWN"}, m \in Nodes \cup {None} :
            ProcessNodeMessage(n, t, NoData, m)
    \/ RxAfterSettle
    \/ \E n \in Nodes : ShellSelect(n)
    \/ ShellNoTarget("arm")
    \/ ShellStopNoTarget
    \/ ShellSend
    \/ WaitTimeout
    \/ \E n \in Nodes, c \in {"arm", "set_mode"} : CommandLost(n, c)

SpecSelect == Init /\ [][SelectNext]_vars

\* this step is the shell's handling of command c entered without a target
NoTargetInput(c) == emitted' # <<>> /\ emitted'[1] = Ev("INPUT_NO_TARGET", c)

\* this step is the shell's handling of select(n)
SelectInput(n) == emitted' # <<>> /\ emitted'[1] = Ev("INPUT_SELECT", n)

\* Target selection for the commands cmds: select(n) changes the selection
\* only when n is in known_nodes; a command without a target goes to the
\* selected node, and to no other, only if that node is in known_nodes, and
\* otherwise nothing is sent, the command is rejected and the selection is
\* cleared.
TargetSelection(cmds) ==
    /\ \A n \in Nodes :
          SelectInput(n) =>
              last_command_node' = IF n \in known_nodes THEN n ELSE last_command_node
    /\ \A c \in cmds :
          NoTargetInput(c) =>
              IF last_command_node # None /\ last_command_node \in known_nodes
              THEN /\ sh_pc' = "send" => sh_node' = last_command_node
                   /\ \A d \in cmd_net' \ cmd_net : d[1] = last_command_node
                   /\ last_command_node' = last_command_node
              ELSE /\ cmd_net' = cmd_net
                   /\ sh_pc' = "idle"
                   /\ last_command_node' = None
                   /\ Len(emitted') > 1
    /\ (sh_pc = "send" /\ sh_pc' # "send") =>
          /\ cmd_net' \ cmd_net \subseteq {<<sh_node, sh_command>>}
          /\ cmd_net' # cmd_net => sh_node \in known_nodes

\* C40: operator target selection, for every command of the shell: select(n)
\* changes the selected node only when n is in known_nodes; a command given
\* without a target is sent to the last selected node only if that node is
\* still in known_nodes, and otherwise nothing is sent, the command is
\* rejected and the selection is cleared.
C40_TargetSelection == [][TargetSelection({"arm", "stop"})]_vars

====
